---- MODULE Spec2Model ----
(***************************************************************************)
(* FastconController (esphome-fastcon): command queue, normal advertise /  *)
(* gap scheduler and the pairing mode that takes the radio over.           *)
(*                                                                         *)
(* The controller modelled is the one listed in OPTIMIZATION.md (lines     *)
(* 170-735), which is the controller of fastcon_controller.cpp extended    *)
(* with the pairing branch of loop() and the pairing pair_device(); the    *)
(* class members and their defaults come from the header part of           *)
(* fastcon_controller.cpp (lines 331-465).                                 *)
(*                                                                         *)
(* Time.  The code reads millis() and uses it only in differences          *)
(* now - <stored time>.  The model keeps every stored time relative to     *)
(* the instant of the last operation: that instant is time 0 (now), a      *)
(* stored time is 0 or negative, and a loop() call made d milliseconds     *)
(* later runs with millis() = d and then moves the origin to d (Rebase).   *)
(* A stored time older than its horizon is kept at the horizon; every      *)
(* horizon is at least the largest threshold the code compares that time   *)
(* with, so no comparison of the code changes.  A stored time that the     *)
(* code overwrites before it reads it again (state_start_time_ in IDLE,    *)
(* the pairing times outside a session, pairing_phase_start_ in the        *)
(* discovery phase, cmd.timestamp always) is kept at its horizon by the    *)
(* first loop() call that does not read it.  uint32 wrap-around of         *)
(* millis() (every 49 days) is outside the model.                          *)
(***************************************************************************)
EXTENDS Integers, Sequences, FiniteSets, TLC

(***************************************************************************)
(* Bounds of the model.                                                    *)
(***************************************************************************)
\* queueCommand is called at most MaxCalls times in one behaviour
MaxCalls == 2
\* pair_device is called at most MaxPairCalls times in one behaviour
MaxPairCalls == 1
\* the largest argument given to set_max_queue_size
MaxCfgQueue == 2
\* write_state is called at most MaxUpdates times in one behaviour
MaxUpdates == 3
\* send_raw_command is called at most MaxRawCalls times in one behaviour
MaxRawCalls == 1
\* clear_queue is called at most MaxClears times in one behaviour of the threads
MaxClears == 1
\* write_state is called at most MaxScenarioUpdates times in one behaviour of the
\* scenario of three lights
MaxScenarioUpdates == 6

\* milliseconds between a loop() call in normal mode and the previous operation
NormalDeltas == {5, 50}
\* session-elapsed times at which loop() is called during a pairing session
SessionInstants == {50, 100, 3999, 4000, 4100, 9000, 59999, 60000, 60050}
\* arguments of set_max_queue_size
QueueSizes == 1..MaxCfgQueue
\* arguments of set_adv_interval_min and set_adv_interval_max (uint16_t)
AdvIntervals == {16, 32, 64, 128}
\* arguments of pair_device
LightIds == {1}
GroupIds == {1, 2}
\* the lights of the debounce layer and the values a state update carries
Lights == {1, 2}
LightValues == {0, 1}
\* milliseconds between a light's loop() call and the previous operation
LightDeltas == {50, 300}
\* the scenario of three lights: the lights, and the ms between one iteration
\* of the main loop and the previous operation
ScenarioLights == {1, 2, 3}
ScenarioDeltas == {50, 300}
\* the threads: the polling loop, a thread that calls queueCommand, a thread
\* that calls clear_queue and get_queue_size; the polling loop in the loop() of
\* a light, and the thread that calls write_state
Threads == {"loop", "producer", "client", "light", "writer"}
\* the light whose loop() and write_state run in different threads
ThreadLights == {1}
\* the light states get_light_data is given: the capabilities of the color
\* mode, brightness and channels in thousandths, color temperature in mireds
ColorModes ==
    {{"ON_OFF"}, {"ON_OFF", "BRIGHTNESS"}, {"ON_OFF", "BRIGHTNESS", "WHITE"},
     {"ON_OFF", "BRIGHTNESS", "COLOR_TEMPERATURE"},
     {"ON_OFF", "BRIGHTNESS", "COLD_WARM_WHITE"},
     {"ON_OFF", "BRIGHTNESS", "RGB"},
     {"ON_OFF", "BRIGHTNESS", "RGB", "WHITE"},
     {"ON_OFF", "BRIGHTNESS", "RGB", "COLOR_TEMPERATURE"},
     {"ON_OFF", "BRIGHTNESS", "RGB", "COLD_WARM_WHITE"}}
Brightnesses == {0, 5, 500, 1000}
Reds == {0, 1000}
Greens == {500}
Blues == {1000}
WarmWhites == {0, 1000}
ColdWhites == {250}
Temperatures == {100, 300, 600}
\* arguments of generate_command and of set_mesh_key
CommandTypes == {5, 10}
CodecLightIds == {1, 43981}
CodecData == {<<>>, <<1>>, <<0, 255, 3, 4, 5, 6, 7>>}
MeshKeys == {<<0, 0, 0, 0>>, <<17, 34, 51, 68>>}
\* the lights send_raw_command is called for, and the data it is given
RawLights == {1}
RawData == {<<1>>}

(***************************************************************************)
(* Program constants.                                                      *)
(***************************************************************************)
\* size_t max_queue_size_{100}
DefaultMaxQueueSize == 100
\* uint16_t adv_duration_{50}
adv_duration_ == 50
\* uint16_t adv_gap_{10}
adv_gap_ == 10
\* elapsed >= 4000: Discovery -> Pairing
DiscoveryMs == 4000
\* phase_elapsed / 5000: one light id slot
SlotMs == 5000
\* elapsed >= 60000: pairing timeout
PairingTimeoutMs == 60000
\* now - state_start_time_ >= 100: pairing re-advertise period
ReadvertiseMs == 100
\* sequence_counter_ = 0x50 and static uint8_t pairing_counter = 0x50
CounterStart == 80
\* command byte of the discovery advertisement, 0x4e
CmdDiscovery == 78
\* command byte of the pairing advertisement, 0x6e
CmdPairing == 110
\* static const uint32_t DEBOUNCE_MS = 100
DEBOUNCE_MS == 100
\* static const uint32_t MIN_INTERVAL_MS = 300
MIN_INTERVAL_MS == 300

\* state_start_time_ is compared with adv_duration_, adv_gap_ and 100 ms
StateHorizon == ReadvertiseMs
\* the time between two frame starts is compared with adv_duration_ + adv_gap_
TxHorizon == adv_duration_ + adv_gap_
\* pairing_start_time_ is compared with 4000 and 60000 ms; pairing_phase_start_
\* is at most that old while a session reads it
PairingHorizon == PairingTimeoutMs + 100

VARIABLES
    queue_,                 \* std::queue<Command>, front first
    max_queue_size_,
    adv_state_,             \* AdvertiseState
    state_start_time_,
    pairing_mode_,
    pairing_phase_,         \* PairingPhase
    pairing_start_time_,
    pairing_phase_start_,
    pairing_light_id_,
    pairing_base_light_id_,
    sequence_counter_,
    mesh_key_,
    adv_interval_min_,
    adv_interval_max_,
    disc_counter,           \* static uint8_t counter of build_discovery_advertisement
    pairing_counter,        \* static uint8_t pairing_counter of build_pairing_advertisement
    radio_advertising,      \* the radio is advertising
    radio_scanning,         \* the radio is scanning
    op,                     \* what produced this state: "loop" for loop(), "call" for a call
                            \* of another member function
    handed,                 \* bytes given to esp_ble_gap_config_adv_data_raw by that operation
    started,                \* the mesh frame whose advertisement that operation started
    gap,                    \* when it started one: ms since the previous start
    last_started,           \* the last mesh frame whose advertisement started
    prev_started,           \* the one before it
    last_tx,                \* the time it started
    calls,                  \* number of queueCommand calls so far
    pair_calls,             \* number of pair_device calls so far
    \* fastcon_light, one value per light
    last_sent_data_,
    pending_data_,
    last_state_change_,
    last_command_sent_,
    has_pending_command_,
    sent,                   \* the bytes given to queueCommand by the last operation
    frames,                 \* per light: number of its frames accepted into the queue
    last_enqueue,           \* per light: the time the last of them was accepted
    enqueue_gap,            \* when one was accepted: ms since the one before
    run_frames,             \* per light: frames accepted since its updates last changed value
    burst_frames,           \* per light: frames accepted since its current burst began
    burst_updates,          \* per light: updates of its current burst, 2 for more than one
    updates,                \* number of write_state calls so far
    raw_calls,              \* number of send_raw_command calls so far
    last_frame,             \* per light: the time a frame for it was last accepted, by any caller
    frame_gap,              \* when one was accepted: ms since the one before
    \* generate_command
    sequence,               \* static uint8_t sequence
    generated,              \* the last call: its arguments, sequence byte and body
    encodes,                \* calls so far: 0, 1, or 2 for more than one
    \* get_light_data
    light_data,             \* the last call: the light state it was given, and its result
    \* the scenario of three lights
    round_elapsed,          \* ms since the first update of the current round
    round_updates,          \* per light: its updates in the round, 2 for more than one
    round_frames,           \* per light: its frames accepted in the round
    turn,                   \* the light whose loop() the main loop calls next
    \* threads
    queue_mutex_,           \* std::mutex: the thread that holds it, or "none"
    pc,                     \* per thread: the statement it executes next, "idle" outside a call
    local,                  \* per thread: the data argument, or the bytes of the local cmd
    pushed,                 \* the frames pushed into the queue so far
    dequeued,               \* the frames popped by loop(), in order
    cleared,                \* the frames discarded by clear_queue, in order
    transmitted,            \* the frames whose advertisement started, in order
    observed,               \* the last value returned by get_queue_size
    clears,                 \* number of clear_queue calls so far
    resolved                \* the bytes of the last write_state have been handed to
                            \* queueCommand, or found equal to the last sent, since

vars == <<queue_, max_queue_size_, adv_state_, state_start_time_, pairing_mode_,
          pairing_phase_, pairing_start_time_, pairing_phase_start_,
          pairing_light_id_, pairing_base_light_id_, sequence_counter_, mesh_key_,
          adv_interval_min_, adv_interval_max_, disc_counter, pairing_counter,
          radio_advertising, radio_scanning, op,
          handed, started, gap, last_started, prev_started, last_tx, calls,
          pair_calls, last_sent_data_, pending_data_, last_state_change_,
          last_command_sent_, has_pending_command_, sent, frames, last_enqueue,
          enqueue_gap, run_frames, burst_frames, burst_updates, updates, raw_calls, last_frame,
          frame_gap, sequence, generated, encodes, light_data, round_elapsed,
          round_updates, round_frames, turn, queue_mutex_, pc, local, pushed,
          dequeued, cleared, transmitted, observed, clears, resolved>>

\* the members of the controller other than the queue and its capacity
ctlVars == <<adv_state_, state_start_time_, pairing_mode_, pairing_phase_,
             pairing_start_time_, pairing_phase_start_, pairing_light_id_,
             pairing_base_light_id_, sequence_counter_, mesh_key_>>
radioVars == <<radio_advertising, radio_scanning>>
staticVars == <<disc_counter, pairing_counter>>
logVars == <<last_started, prev_started, last_tx>>
\* the members of the lights and what is recorded about them
lightVars == <<last_sent_data_, pending_data_, last_state_change_, last_command_sent_,
               has_pending_command_, sent, frames, last_enqueue, enqueue_gap, run_frames,
               burst_frames, burst_updates, updates>>
rawVars == <<raw_calls, last_frame, frame_gap>>
codecVars == <<sequence, generated, encodes, light_data>>
roundVars == <<round_elapsed, round_updates, round_frames, turn>>
\* the bounds of the advertising interval
intervalVars == <<adv_interval_min_, adv_interval_max_>>
\* the mutex, the threads and what is recorded about the entries of the queue
threadVars == <<queue_mutex_, pc, local, pushed, dequeued, cleared, transmitted,
                observed, clears, resolved>>

\* millis() at the instant of the last operation
now == 0

(***************************************************************************)
(* Byte helpers.                                                           *)
(***************************************************************************)
RECURSIVE SumFrom(_, _)
\* sum of data[i..Len(data)], 1-based
SumFrom(data, i) == IF i > Len(data) THEN 0 ELSE data[i] + SumFrom(data, i + 1)

Min(a, b) == IF a <= b THEN a ELSE b

Max(a, b) == IF a >= b THEN a ELSE b

\* a stored time t, seen from an origin moved d ms later, kept within horizon h
Rebase(t, d, h) == Max(t - d, 0 - h)

\* the same for a stored time that is read again only if live
Keep(live, t, d, h) == IF live THEN Rebase(t, d, h) ELSE 0 - h

\* the frame the n-th queueCommand call is given: its bytes are the call number,
\* so that two entries of one behaviour are never equal
Frame(n) == <<n>>

(***************************************************************************)
(* Pairing advertisements.                                                 *)
(***************************************************************************)
\* calculate_pairing_crc: sum of data[13..] (0-based), times 0x1234, low 24 bits
calculate_pairing_crc(data) == (SumFrom(data, 14) * 4660) % 16777216

\* build_discovery_advertisement, with the value of the static counter
build_discovery_advertisement(counter) ==
    <<102, 85, 68, 51, 34, 17>>
    \o <<2, 1, 26>>
    \o <<19, 255, 240, 255>>
    \o <<CmdDiscovery>>
    \o <<(108 + (counter % 4)) % 256, (90 + (counter % 8)) % 256, counter % 8,
         52, 142, 137, 181>>
    \o <<226, 56, 161, 168, 94, 54, 123, 196>>
    \o <<233, 151, 77>>

\* build_pairing_advertisement, with the value of the static pairing_counter
build_pairing_advertisement(counter, light_id, key) ==
    LET body == <<102, 85, 68, 51, 34, 17>>
                \o <<2, 1, 26>>
                \o <<19, 255, 240, 255>>
                \o <<CmdPairing>>
                \o <<counter>>
                \o <<light_id % 256, (light_id \div 256) % 256>>
                \o <<68, 16, 51, 50>>
                \o <<52, 10>>
                \o <<57, 57>>
                \o key
        crc == calculate_pairing_crc(body)
    IN  body \o <<(crc \div 65536) % 256, (crc \div 256) % 256, crc % 256>>

\* loop(), pairing branch: the bytes copied into adv_data_raw, MAC skipped
PairingAdvRaw(adv_data) ==
    LET copy_len == Min(Len(adv_data) - 6, 25)
    IN  SubSeq(adv_data, 7, 6 + copy_len)

\* loop(), IDLE case: flags, manufacturer header and the frame of the command
MeshAdvRaw(data) ==
    <<2, 1, 6>> \o <<(Len(data) + 2) % 256, 255, 240, 255>> \o data

(***************************************************************************)
(* generate_command: the mesh packet of a command.                         *)
(***************************************************************************)
RECURSIVE Xor(_, _)
\* a ^ b
Xor(a, b) ==
    IF a = 0 THEN b
    ELSE IF b = 0 THEN a
    ELSE (((a % 2) + (b % 2)) % 2) + 2 * Xor(a \div 2, b \div 2)

\* static const std::array<uint8_t, 4> DEFAULT_ENCRYPT_KEY
DEFAULT_ENCRYPT_KEY == <<94, 54, 123, 196>>

\* DEFAULT_BLE_FASTCON_ADDRESS
DEFAULT_BLE_FASTCON_ADDRESS == <<193, 194, 195>>

\* body[0] = (i2 & 0b1111) | ((n & 0b111) << 4) | (forward ? 0x80 : 0), with
\* uint8_t i2 = light_id_ / 256; the three fields have no bit in common
HeaderByte_id_low(n, light_id_, forward) ==
    (light_id_ % 16) + ((n % 8) * 16) + (IF forward THEN 128 ELSE 0)
HeaderByte(n, light_id_, forward) ==
    (((light_id_ \div 256) % 256) % 16) + ((n % 8) * 16) + (IF forward THEN 128 ELSE 0)

\* body[1] = sequence++; if (sequence >= 255) sequence = 1;
NextSequence_zero(seq) == IF (seq + 1) % 256 >= 255 THEN 0 ELSE (seq + 1) % 256
NextSequence(seq) == IF (seq + 1) % 256 >= 255 THEN 1 ELSE (seq + 1) % 256

\* the body before the checksum: header, body[3] still zero, then the data
PlainBody(n, light_id_, data, forward, seq, key) ==
    <<HeaderByte(n, light_id_, forward), seq, key[4], 0>> \o data

\* the sum of the bytes of body other than body[3]
Checksum_skip0(body) == SumFrom(body, 2) % 256
Checksum(body) == (SumFrom(body, 1) - body[4]) % 256

\* the header is encrypted with DEFAULT_ENCRYPT_KEY, the data with the mesh key
Encrypt_header_only(body, key) ==
    [i \in DOMAIN body |->
        IF i <= 4 THEN Xor(DEFAULT_ENCRYPT_KEY[((i - 1) % 4) + 1], body[i])
                  ELSE body[i]]
Encrypt(body, key) ==
    [i \in DOMAIN body |->
        IF i <= 4 THEN Xor(DEFAULT_ENCRYPT_KEY[((i - 1) % 4) + 1], body[i])
                  ELSE Xor(key[((i - 5) % 4) + 1], body[i])]

\* the body generate_command hands to prepare_payload
generate_command(n, light_id_, data, forward, seq, key) ==
    LET body == PlainBody(n, light_id_, data, forward, seq, key)
    IN  Encrypt([body EXCEPT ![4] = Checksum(body)], key)

\* the RF formatting of the body under the broadcast address
prepare_payload(addr, body) == addr \o body

(***************************************************************************)
(* get_light_data: the payload of a light state.  A float in [0, 1] is a   *)
(* number of thousandths; the cast to uint8_t drops the fraction.          *)
(***************************************************************************)
\* static_cast<uint8_t>(std::min(values.get_brightness() * 127.0f, 127.0f))
Brightness127(brightness) == Min((brightness * 127) \div 1000, 127)

\* static_cast<uint8_t>(channel * 255.0f)
Channel255(channel) == (channel * 255) \div 1000

\* light_data[4] and light_data[5] for a color temperature
WarmOfTemperature(temperature) ==
    IF temperature < 153 THEN 255
    ELSE IF temperature > 500 THEN 0
    ELSE ((500 - temperature) * 255) \div (500 - 153)

ColdOfTemperature(temperature) ==
    IF temperature < 153 THEN 0
    ELSE IF temperature > 500 THEN 255
    ELSE ((temperature - 153) * 255) \div (500 - 153)

\* get_light_data(state), state.current_values given as a record
get_light_data(values) ==
    LET color_mode == values.color_mode
        b == Brightness127(values.brightness)
        has_rgb == "RGB" \in color_mode
        has_cold_warm == "COLD_WARM_WHITE" \in color_mode
        has_temp == "COLOR_TEMPERATURE" \in color_mode
    IN  IF ~values.is_on THEN <<0>>
        ELSE IF "WHITE" \in color_mode THEN <<b>>
        ELSE <<128 + b,
               IF has_rgb THEN Channel255(values.blue) ELSE 0,
               IF has_rgb THEN Channel255(values.red) ELSE 0,
               IF has_rgb THEN Channel255(values.green) ELSE 0,
               IF has_temp THEN WarmOfTemperature(values.temperature)
               ELSE IF has_cold_warm THEN Channel255(values.warm_white) ELSE 0,
               IF has_temp THEN ColdOfTemperature(values.temperature)
               ELSE IF has_cold_warm THEN Channel255(values.cold_white) ELSE 0>>

\* no call of get_light_data yet
NoLightData == [called |-> FALSE]

\* no call of generate_command yet
NotGenerated ==
    [n |-> 0, light_id_ |-> 0, data |-> <<>>, forward |-> FALSE, sequence |-> 0,
     mesh_key_ |-> <<0, 0, 0, 0>>, body |-> <<>>]

(***************************************************************************)
(* Conditions of the code, one operator per test.                          *)
(***************************************************************************)
\* a variant of QueueFull: > where the code has >=
QueueFull_gt(size, max) == size > max

\* queueCommand: queue_.size() >= max_queue_size_
QueueFull(size, max) == size >= max

\* a variant of Front: queue_.back()
Front_back(q) == q[Len(q)]

\* loop(), IDLE case: queue_.front()
Front(q) == Head(q)

\* loop(), IDLE case: queue_.pop()
Pop(q) == Tail(q)

\* a variant of AdvertisingDone: adv_gap_ where the code has adv_duration_
AdvertisingDone_gap(elapsed) == elapsed >= adv_gap_

\* loop(), ADVERTISING case: now - state_start_time_ >= adv_duration_
AdvertisingDone(elapsed) == elapsed >= adv_duration_

\* a variant of AfterAdvertising: straight back to IDLE
AfterAdvertising_idle == "IDLE"

\* loop(), ADVERTISING case: adv_state_ = AdvertiseState::GAP
AfterAdvertising == "GAP"

\* a variant of GapDone: state_start_time_ - now where the code has
\* now - state_start_time_
GapDone_rev(elapsed) == (0 - elapsed) >= adv_gap_

\* loop(), GAP case: now - state_start_time_ >= adv_gap_
GapDone(elapsed) == elapsed >= adv_gap_

\* loop(), GAP case: adv_state_ = AdvertiseState::IDLE
AfterGap == "IDLE"

\* a variant of DiscoveryDone: > where the code has >=
DiscoveryDone_gt(phase, elapsed) == phase = "DISCOVERY" /\ elapsed > DiscoveryMs

\* loop(), pairing branch: pairing_phase_ == DISCOVERY && elapsed >= 4000
DiscoveryDone(phase, elapsed) == phase = "DISCOVERY" /\ elapsed >= DiscoveryMs

\* a variant of SlotLightId: the slot is counted from one
SlotLightId_from_one(base, phase_elapsed) == base + (phase_elapsed \div SlotMs) + 1

\* loop(), pairing branch: pairing_base_light_id_ + phase_elapsed / 5000
SlotLightId(base, phase_elapsed) == base + (phase_elapsed \div SlotMs)

\* a variant of PairingTimedOut: > where the code has >=
PairingTimedOut_gt(elapsed) == elapsed > PairingTimeoutMs

\* loop(), pairing branch: elapsed >= 60000
PairingTimedOut(elapsed) == elapsed >= PairingTimeoutMs

\* a variant of ReadvertiseDue: > where the code has >=
ReadvertiseDue_gt(state, elapsed) ==
    state = "IDLE" \/ (state = "ADVERTISING" /\ elapsed > ReadvertiseMs)

\* loop(), pairing branch: IDLE, or ADVERTISING for at least 100 ms
ReadvertiseDue(state, elapsed) ==
    state = "IDLE" \/ (state = "ADVERTISING" /\ elapsed >= ReadvertiseMs)

\* loop(), pairing branch: the advertisement built for the phase
PhaseAdvertisement(phase, dcounter, pcounter, light_id, key) ==
    IF phase = "DISCOVERY"
        THEN build_discovery_advertisement(dcounter)
        ELSE build_pairing_advertisement(pcounter, light_id, key)

(***************************************************************************)
(* State after construction: the member initialisers of the class.  The    *)
(* pairing members are written by pair_device and by the phase transition  *)
(* before loop() reads them.  No frame has been started: last_tx is at its *)
(* horizon.                                                                *)
(***************************************************************************)
\* the controller after construction
InitController ==
    /\ queue_ = <<>>
    /\ max_queue_size_ = DefaultMaxQueueSize
    /\ adv_state_ = "IDLE"
    /\ state_start_time_ = 0
    /\ pairing_mode_ = FALSE
    /\ pairing_phase_ = "DISCOVERY"
    /\ pairing_start_time_ = 0
    /\ pairing_phase_start_ = 0
    /\ pairing_light_id_ = 0
    /\ pairing_base_light_id_ = 0
    /\ sequence_counter_ = 0
    /\ mesh_key_ = <<0, 0, 0, 0>>
    /\ adv_interval_min_ = 32
    /\ adv_interval_max_ = 64
    /\ disc_counter = 0
    /\ pairing_counter = CounterStart
    /\ radio_advertising = FALSE
    /\ radio_scanning = TRUE
    /\ op = "init"
    /\ handed = <<>>
    /\ started = <<>>
    /\ gap = 0
    /\ last_started = <<>>
    /\ prev_started = <<>>
    /\ last_tx = 0 - TxHorizon
    /\ calls = 0
    /\ pair_calls = 0

\* the lights L after construction, and nothing generated or recorded yet
InitLights(L) ==
    /\ last_sent_data_ = [l \in L |-> <<>>]
    /\ pending_data_ = [l \in L |-> <<>>]
    /\ last_state_change_ = [l \in L |-> 0]
    /\ last_command_sent_ = [l \in L |-> 0]
    /\ has_pending_command_ = [l \in L |-> FALSE]
    /\ sent = <<>>
    /\ frames = [l \in L |-> 0]
    /\ last_enqueue = [l \in L |-> 0 - MIN_INTERVAL_MS]
    /\ enqueue_gap = 0
    /\ run_frames = [l \in L |-> 0]
    /\ burst_frames = [l \in L |-> 0]
    /\ burst_updates = [l \in L |-> 0]
    /\ updates = 0
    /\ raw_calls = 0
    /\ last_frame = [l \in L |-> 0 - MIN_INTERVAL_MS]
    /\ frame_gap = 0
    /\ sequence = 0
    /\ generated = NotGenerated
    /\ encodes = 0
    /\ light_data = NoLightData
    /\ round_elapsed = 0
    /\ round_updates = [l \in L |-> 0]
    /\ round_frames = [l \in L |-> 0]
    /\ turn = 1

\* the mutex is free and no thread is inside a call
InitThreads ==
    /\ queue_mutex_ = "none"
    /\ pc = [t \in Threads |-> "idle"]
    /\ local = [t \in Threads |-> <<>>]
    /\ pushed = {}
    /\ dequeued = <<>>
    /\ cleared = <<>>
    /\ transmitted = <<>>
    /\ observed = 0
    /\ clears = 0
    /\ resolved = FALSE

Init == InitController /\ InitLights(Lights) /\ InitThreads

\* an operation other than loop() calls no radio function that takes a payload
NoRadioCall == handed' = <<>> /\ started' = <<>> /\ gap' = 0

\* a variant of queueCommand: a full queue evicts its oldest entry
queueCommand_evict(data) ==
    /\ calls < MaxCalls
    /\ calls' = calls + 1
    /\ op' = "call"
    /\ NoRadioCall
    /\ LET entry == [data |-> data, timestamp |-> now, retries |-> 0]
       IN  IF Len(queue_) >= max_queue_size_ /\ queue_ # <<>>
               THEN queue_' = Append(Tail(queue_), entry)
               ELSE queue_' = Append(queue_, entry)
    /\ UNCHANGED <<max_queue_size_, ctlVars, staticVars, threadVars, intervalVars, radioVars, logVars, pair_calls,
                   lightVars, rawVars, codecVars, roundVars>>

(***************************************************************************)
(* queueCommand(light_id_, data)                                           *)
(***************************************************************************)
queueCommand(data) ==
    /\ calls < MaxCalls
    /\ calls' = calls + 1
    /\ op' = "call"
    /\ NoRadioCall
    /\ IF QueueFull(Len(queue_), max_queue_size_)
           THEN queue_' = queue_
           ELSE queue_' = Append(queue_, [data |-> data, timestamp |-> now, retries |-> 0])
    /\ UNCHANGED <<max_queue_size_, ctlVars, staticVars, threadVars, intervalVars, radioVars, logVars, pair_calls,
                   lightVars, rawVars, codecVars, roundVars>>

(***************************************************************************)
(* clear_queue(): swap with an empty queue                                 *)
(***************************************************************************)
clear_queue_restart ==
    /\ queue_' = <<>>
    /\ op' = "call"
    /\ NoRadioCall
    /\ adv_state_' = "IDLE"
    /\ radio_advertising' = FALSE
    /\ UNCHANGED <<max_queue_size_, state_start_time_, pairing_mode_, pairing_phase_,
                   pairing_start_time_, pairing_phase_start_, pairing_light_id_,
                   pairing_base_light_id_, sequence_counter_, mesh_key_, staticVars, threadVars, intervalVars,
                   radio_scanning, logVars, calls, pair_calls, lightVars, rawVars,
                   codecVars, roundVars>>
clear_queue ==
    /\ queue_' = <<>>
    /\ op' = "call"
    /\ NoRadioCall
    /\ UNCHANGED <<max_queue_size_, ctlVars, staticVars, threadVars, intervalVars, radioVars, logVars, calls,
                   pair_calls, lightVars, rawVars, codecVars, roundVars>>

\* is_queue_empty() and get_queue_size()
is_queue_empty(q) == q = <<>>

get_queue_size(q) == Len(q)

(***************************************************************************)
(* set_max_queue_size(size)                                                *)
(***************************************************************************)
set_max_queue_size(size) ==
    /\ max_queue_size_' = size
    /\ op' = "call"
    /\ NoRadioCall
    /\ UNCHANGED <<queue_, ctlVars, staticVars, threadVars, intervalVars, radioVars, logVars, calls, pair_calls,
                   lightVars, rawVars, codecVars, roundVars>>

\* a variant of PairingLightId: the group id goes into the light id
PairingLightId_group(new_light_id, group_id) == new_light_id + group_id

\* pair_device: the light id it stores in pairing_light_id_ and
\* pairing_base_light_id_; group_id is only logged
PairingLightId(new_light_id, group_id) == new_light_id

\* a variant of pair_device: entering pairing mode clears the queue
pair_device_clear(new_light_id, group_id) ==
    /\ pair_calls < MaxPairCalls
    /\ pair_calls' = pair_calls + 1
    /\ radio_scanning' = FALSE
    /\ radio_advertising' = FALSE
    /\ pairing_mode_' = TRUE
    /\ pairing_start_time_' = now
    /\ pairing_light_id_' = new_light_id
    /\ pairing_base_light_id_' = new_light_id
    /\ pairing_phase_' = "DISCOVERY"
    /\ adv_state_' = "IDLE"
    /\ op' = "call"
    /\ NoRadioCall
    /\ queue_' = <<>>
    /\ UNCHANGED <<max_queue_size_, state_start_time_, pairing_phase_start_,
                   sequence_counter_, mesh_key_, staticVars, threadVars, intervalVars, logVars, calls, lightVars, rawVars, codecVars, roundVars>>

(***************************************************************************)
(* pair_device(new_light_id, group_id)                                     *)
(***************************************************************************)
pair_device(new_light_id, group_id) ==
    /\ pair_calls < MaxPairCalls
    /\ pair_calls' = pair_calls + 1
    /\ radio_scanning' = FALSE
    /\ radio_advertising' = FALSE
    /\ pairing_mode_' = TRUE
    /\ pairing_start_time_' = now
    /\ pairing_light_id_' = PairingLightId(new_light_id, group_id)
    /\ pairing_base_light_id_' = PairingLightId(new_light_id, group_id)
    /\ pairing_phase_' = "DISCOVERY"
    /\ adv_state_' = "IDLE"
    /\ op' = "call"
    /\ NoRadioCall
    /\ UNCHANGED <<queue_, max_queue_size_, state_start_time_, pairing_phase_start_,
                   sequence_counter_, mesh_key_, staticVars, threadVars, intervalVars,
                   logVars, calls, lightVars, rawVars, codecVars, roundVars>>

(***************************************************************************)
(* loop().  The body takes the state at entry to the state at return: s    *)
(* holds what loop() can change, now_ is millis(), cfg_ok and start_ok are *)
(* the results of esp_ble_gap_config_adv_data_raw and of                   *)
(* esp_ble_gap_start_advertising.  s.handed is what was given to the       *)
(* former, s.started the mesh frame whose advertisement started.  The      *)
(* pairing branch is written as its consecutive if-blocks, each an         *)
(* operator on the state left by the one before.                           *)
(***************************************************************************)
Cur ==
    [queue_ |-> queue_, adv_state_ |-> adv_state_,
     state_start_time_ |-> state_start_time_, pairing_mode_ |-> pairing_mode_,
     pairing_phase_ |-> pairing_phase_, pairing_phase_start_ |-> pairing_phase_start_,
     pairing_light_id_ |-> pairing_light_id_, sequence_counter_ |-> sequence_counter_,
     disc_counter |-> disc_counter, pairing_counter |-> pairing_counter,
     radio_advertising |-> radio_advertising, radio_scanning |-> radio_scanning,
     handed |-> <<>>, started |-> <<>>]

\* a variant of pairing_phase_transition: the radio and the sub-state are left alone
pairing_phase_transition_keep(s, now_) ==
    IF DiscoveryDone(s.pairing_phase_, now_ - pairing_start_time_)
        THEN [s EXCEPT !.pairing_phase_ = "PAIRING",
                       !.pairing_phase_start_ = now_]
        ELSE s

\* loop(), pairing branch, Discovery -> Pairing: stop the radio, reset the sub-state
pairing_phase_transition(s, now_) ==
    IF DiscoveryDone(s.pairing_phase_, now_ - pairing_start_time_)
        THEN [s EXCEPT !.pairing_phase_ = "PAIRING",
                       !.pairing_phase_start_ = now_,
                       !.radio_advertising = FALSE,
                       !.adv_state_ = "IDLE"]
        ELSE s

\* loop(), pairing branch, light id auto-increment
pairing_light_id_increment(s, now_) ==
    LET phase_elapsed == now_ - s.pairing_phase_start_
        new_light_id == SlotLightId(pairing_base_light_id_, phase_elapsed)
    IN  IF s.pairing_phase_ = "PAIRING" /\ new_light_id # s.pairing_light_id_
            THEN [s EXCEPT !.pairing_light_id_ = new_light_id,
                           !.sequence_counter_ = CounterStart,
                           !.radio_advertising = FALSE,
                           !.adv_state_ = "IDLE"]
            ELSE s

\* loop(), pairing branch, timeout: leave pairing mode, restart scanning
pairing_timeout(s) ==
    [s EXCEPT !.pairing_mode_ = FALSE,
              !.radio_advertising = FALSE,
              !.adv_state_ = "IDLE",
              !.radio_scanning = TRUE]

\* loop(), pairing branch, re-advertise: stop the previous advertisement if any,
\* build the advertisement of the phase (the build_* call increments its static
\* counter), configure the radio and start advertising
pairing_advertise(s, now_, cfg_ok, start_ok) ==
    LET adv_data == PhaseAdvertisement(s.pairing_phase_, s.disc_counter,
                                       s.pairing_counter, s.pairing_light_id_, mesh_key_)
        built == [s EXCEPT !.radio_advertising =
                               IF s.adv_state_ = "ADVERTISING" THEN FALSE ELSE @,
                           !.disc_counter =
                               IF s.pairing_phase_ = "DISCOVERY" THEN (@ + 1) % 256 ELSE @,
                           !.pairing_counter =
                               IF s.pairing_phase_ = "DISCOVERY" THEN @ ELSE (@ + 1) % 256,
                           !.handed = PairingAdvRaw(adv_data)]
    IN  IF ~cfg_ok THEN built
        ELSE IF ~start_ok THEN built
        ELSE [built EXCEPT !.radio_advertising = TRUE,
                           !.adv_state_ = "ADVERTISING",
                           !.state_start_time_ = now_]

\* loop(), pairing branch, after the phase and light id updates
pairing_session(s, now_, cfg_ok, start_ok) ==
    IF PairingTimedOut(now_ - pairing_start_time_) THEN pairing_timeout(s)
    ELSE IF ReadvertiseDue(s.adv_state_, now_ - s.state_start_time_)
         THEN pairing_advertise(s, now_, cfg_ok, start_ok)
    ELSE s

\* loop(), pairing branch: the state it returns with (a set of one state)
loop_pairing(s, now_, cfg_ok, start_ok) ==
    {pairing_session(s2, now_, cfg_ok, start_ok) :
        s2 \in {pairing_light_id_increment(s1, now_) :
                    s1 \in {pairing_phase_transition(s, now_)}}}

\* loop(), normal operation
loop_normal(s, now_, cfg_ok, start_ok) ==
    CASE s.adv_state_ = "IDLE" ->
            IF s.queue_ = <<>> THEN s
            ELSE LET cmd == Front(s.queue_)
                     raw == MeshAdvRaw(cmd.data)
                     popped == [s EXCEPT !.queue_ = Pop(s.queue_), !.handed = raw]
                     advertising == [popped EXCEPT !.radio_advertising = TRUE,
                                                   !.adv_state_ = "ADVERTISING",
                                                   !.state_start_time_ = now_,
                                                   !.started = cmd.data]
                 IN  IF ~cfg_ok THEN popped
                     ELSE IF ~start_ok THEN popped
                     ELSE advertising
      [] s.adv_state_ = "ADVERTISING" ->
            IF AdvertisingDone(now_ - s.state_start_time_)
                THEN [s EXCEPT !.radio_advertising = FALSE,
                               !.adv_state_ = AfterAdvertising,
                               !.state_start_time_ = now_]
                ELSE s
      [] s.adv_state_ = "GAP" ->
            IF GapDone(now_ - s.state_start_time_)
                THEN [s EXCEPT !.adv_state_ = AfterGap]
                ELSE s

\* a variant of loop_body: the pairing branch falls through to normal operation
loop_body_fallthrough(s, now_, cfg_ok, start_ok) ==
    IF s.pairing_mode_
        THEN {loop_normal(r, now_, cfg_ok, start_ok) :
                 r \in loop_pairing(s, now_, cfg_ok, start_ok)}
        ELSE {loop_normal(s, now_, cfg_ok, start_ok)}

\* loop(): pairing mode takes priority over normal operation; the state it
\* returns with (a set of one state)
loop_body(s, now_, cfg_ok, start_ok) ==
    IF s.pairing_mode_
        THEN loop_pairing(s, now_, cfg_ok, start_ok)
        ELSE {loop_normal(s, now_, cfg_ok, start_ok)}

\* loop() called d milliseconds after the previous operation
loop(d, cfg_ok, start_ok) ==
    LET now_ == now + d
    IN  \E s \in loop_body(Cur, now_, cfg_ok, start_ok) :
        /\ queue_' = [i \in DOMAIN s.queue_ |->
                          [s.queue_[i] EXCEPT !.timestamp = Keep(FALSE, @, d, StateHorizon)]]
        /\ adv_state_' = s.adv_state_
        /\ state_start_time_' = Keep(s.adv_state_ # "IDLE", s.state_start_time_, d,
                                     StateHorizon)
        /\ pairing_mode_' = s.pairing_mode_
        /\ pairing_phase_' = s.pairing_phase_
        /\ pairing_start_time_' = Keep(pairing_mode_, pairing_start_time_, d,
                                       PairingHorizon)
        /\ pairing_phase_start_' = Keep(s.pairing_mode_ /\ s.pairing_phase_ = "PAIRING",
                                        s.pairing_phase_start_, d, PairingHorizon)
        /\ pairing_light_id_' = s.pairing_light_id_
        /\ sequence_counter_' = s.sequence_counter_
        /\ disc_counter' = s.disc_counter
        /\ pairing_counter' = s.pairing_counter
        /\ radio_advertising' = s.radio_advertising
        /\ radio_scanning' = s.radio_scanning
        /\ handed' = s.handed
        /\ op' = "loop"
        /\ started' = s.started
        /\ IF s.started # <<>>
               THEN /\ gap' = Min(now_ - last_tx, TxHorizon)
                    /\ last_started' = s.started
                    /\ prev_started' = last_started
                    /\ last_tx' = Rebase(now_, d, TxHorizon)
               ELSE /\ gap' = 0
                    /\ UNCHANGED <<last_started, prev_started>>
                    /\ last_tx' = Rebase(last_tx, d, TxHorizon)
        /\ UNCHANGED <<max_queue_size_, pairing_base_light_id_, mesh_key_, calls,
                       pair_calls, threadVars, intervalVars, lightVars, rawVars, codecVars, roundVars>>

\* the times at which loop() is called: fixed steps in normal mode, the
\* session instants that are still ahead during a pairing session
TickDeltas ==
    IF pairing_mode_
        THEN {t + pairing_start_time_ : t \in {u \in SessionInstants : u + pairing_start_time_ > 0}}
        ELSE NormalDeltas

\* the results of the two radio calls: the second is made only if the first succeeds
RadioResults == {<<TRUE, TRUE>>, <<FALSE, TRUE>>, <<TRUE, FALSE>>}

Tick == \E d \in TickDeltas, r \in RadioResults : loop(d, r[1], r[2])

Enqueue == queueCommand(Frame(calls + 1))

ClearQueue == clear_queue

SetMaxQueueSize == \E size \in QueueSizes : set_max_queue_size(size)

PairDevice == \E id \in LightIds, group \in GroupIds : pair_device(id, group)

Next ==
    \/ Tick
    \/ Enqueue
    \/ ClearQueue
    \/ SetMaxQueueSize
    \/ PairDevice

Spec == Init /\ [][Next]_vars

(***************************************************************************)
(* Pairing sessions among queued frames: loop() with succeeding and        *)
(* failing radio calls, queueCommand, clear_queue and pair_device; the     *)
(* capacity of the queue stays the default one.                            *)
(***************************************************************************)
PairingNext ==
    \/ Tick
    \/ Enqueue
    \/ ClearQueue
    \/ PairDevice

PairingSpec == Init /\ [][PairingNext]_vars

(***************************************************************************)
(* The polling loop keeps running: loop() is called again and again, at    *)
(* later and later times, the radio calls succeed and nobody clears the    *)
(* queue.                                                                  *)
(***************************************************************************)
LiveTick == \E d \in TickDeltas : loop(d, TRUE, TRUE)

LiveNext ==
    \/ LiveTick
    \/ Enqueue
    \/ PairDevice

LiveSpec == Init /\ [][LiveNext]_vars /\ WF_vars(LiveTick)

(***************************************************************************)
(* The debounce layer of the lights (fastcon_light).  Each light keeps the *)
(* bytes of its last update as pending and hands them to queueCommand from *)
(* its own loop().  The controller's loop() is not part of this            *)
(* specification, and the controller's loop() does not read the lights'    *)
(* members.                                                                *)
(***************************************************************************)

\* the bytes a state update of light l can carry: the light and a value
LightPayloads(l) == {<<l, v>> : v \in LightValues}

\* queueCommand(light_id_, data) as a function of the queue
enqueue(q, max, data) ==
    IF QueueFull(Len(q), max)
        THEN q
        ELSE Append(q, [data |-> data, timestamp |-> now, retries |-> 0])

\* if (time_since_change < DEBOUNCE_MS) return;
DebounceWait_half(time_since_change) == time_since_change < DEBOUNCE_MS \div 2
DebounceWait(time_since_change) == time_since_change < DEBOUNCE_MS

\* if (time_since_sent < MIN_INTERVAL_MS) return;
IntervalWait_debounce(time_since_sent) == time_since_sent < DEBOUNCE_MS
IntervalWait(time_since_sent) == time_since_sent < MIN_INTERVAL_MS

\* if (pending_data_ == last_sent_data_)
IsDuplicate_never(pending, last_sent) == pending = <<>>
IsDuplicate(pending, last_sent) == pending = last_sent

\* the members of light l; op names the branch its loop() takes
Light(l) ==
    [last_sent_data_ |-> last_sent_data_[l], pending_data_ |-> pending_data_[l],
     last_state_change_ |-> last_state_change_[l],
     last_command_sent_ |-> last_command_sent_[l],
     has_pending_command_ |-> has_pending_command_[l], sent |-> <<>>, op |-> "light_idle"]

\* after the call of queueCommand: the bytes and the time are recorded as last
\* sent and the pending flag is cleared
mark_sent(r, now_) ==
    [r EXCEPT !.last_sent_data_ = r.pending_data_, !.last_command_sent_ = now_,
              !.has_pending_command_ = FALSE]

\* the body of the light's loop() at time now_
light_loop_body_stale(r, now_) ==
    IF ~r.has_pending_command_ THEN r
    ELSE IF DebounceWait(now_ - r.last_state_change_) THEN [r EXCEPT !.op = "light_wait"]
    ELSE IF IntervalWait(now_ - r.last_command_sent_) THEN [r EXCEPT !.op = "light_wait"]
    ELSE IF IsDuplicate(r.pending_data_, r.last_sent_data_)
        THEN [r EXCEPT !.has_pending_command_ = FALSE, !.op = "light_duplicate"]
    ELSE mark_sent([r EXCEPT !.sent = <<r.pending_data_[1], 0>>, !.op = "light_send"], now_)
light_loop_body(r, now_) ==
    IF ~r.has_pending_command_ THEN r
    ELSE IF DebounceWait(now_ - r.last_state_change_) THEN [r EXCEPT !.op = "light_wait"]
    ELSE IF IntervalWait(now_ - r.last_command_sent_) THEN [r EXCEPT !.op = "light_wait"]
    ELSE IF IsDuplicate(r.pending_data_, r.last_sent_data_)
        THEN [r EXCEPT !.has_pending_command_ = FALSE, !.op = "light_duplicate"]
    ELSE mark_sent([r EXCEPT !.sent = r.pending_data_, !.op = "light_send"], now_)

\* write_state() of light l with the encoded state adv_data
write_state(l, adv_data) ==
    /\ updates' = updates + 1
    /\ op' = "write_state"
    /\ pending_data_' = [pending_data_ EXCEPT ![l] = adv_data]
    /\ last_state_change_' = [last_state_change_ EXCEPT ![l] = now]
    /\ has_pending_command_' = [has_pending_command_ EXCEPT ![l] = TRUE]
    /\ sent' = <<>>
    /\ enqueue_gap' = 0
    /\ frame_gap' = 0
    /\ run_frames' = [run_frames EXCEPT ![l] = IF adv_data = pending_data_[l] THEN @ ELSE 0]
    /\ burst_frames' = [burst_frames EXCEPT
                           ![l] = IF now - last_state_change_[l] < DEBOUNCE_MS THEN @ ELSE 0]
    /\ burst_updates' = [burst_updates EXCEPT
                            ![l] = IF now - last_state_change_[l] < DEBOUNCE_MS
                                       THEN Min(@ + 1, 2)
                                       ELSE 1]
    /\ UNCHANGED <<queue_, max_queue_size_, ctlVars, staticVars, threadVars, intervalVars, radioVars, logVars, handed,
                   started, gap, calls, pair_calls, last_sent_data_, last_command_sent_,
                   frames, last_enqueue, raw_calls, last_frame, codecVars>>

\* loop() of light l, called d milliseconds after the previous operation
light_loop(l, d) ==
    LET now_ == now + d
        accepted(r) == r.sent # <<>> /\ ~QueueFull(Len(queue_), max_queue_size_)
        count(f, r) == [f EXCEPT ![l] = IF accepted(r) THEN @ + 1 ELSE @]
    IN  \E r \in {light_loop_body(Light(l), now_)} :
        /\ op' = r.op
        /\ queue_' = [i \in DOMAIN queue_ |->
                          [queue_[i] EXCEPT !.timestamp = Keep(d = 0, @, d, StateHorizon)]]
                     \o (IF accepted(r)
                            THEN <<[data |-> r.sent, timestamp |-> now, retries |-> 0]>>
                            ELSE <<>>)
        /\ last_sent_data_' = [last_sent_data_ EXCEPT ![l] = r.last_sent_data_]
        /\ pending_data_' = [pending_data_ EXCEPT ![l] = r.pending_data_]
        /\ has_pending_command_' = [has_pending_command_ EXCEPT
                                       ![l] = r.has_pending_command_]
        /\ last_state_change_' = [k \in DOMAIN last_state_change_ |->
                                     Rebase(last_state_change_[k], d, DEBOUNCE_MS)]
        /\ last_command_sent_' = [k \in DOMAIN last_command_sent_ |->
                                     Rebase(IF k = l THEN r.last_command_sent_
                                                     ELSE last_command_sent_[k],
                                            d, MIN_INTERVAL_MS)]
        /\ sent' = r.sent
        /\ frames' = count(frames, r)
        /\ run_frames' = count(run_frames, r)
        /\ burst_frames' = count(burst_frames, r)
        /\ enqueue_gap' = IF accepted(r)
                              THEN Min(now_ - last_enqueue[l], MIN_INTERVAL_MS)
                              ELSE 0
        /\ last_enqueue' = [k \in DOMAIN last_enqueue |->
                               Rebase(IF k = l /\ accepted(r) THEN now_ ELSE last_enqueue[k],
                                      d, MIN_INTERVAL_MS)]
        /\ frame_gap' = IF accepted(r) THEN Min(now_ - last_frame[l], MIN_INTERVAL_MS) ELSE 0
        /\ last_frame' = [k \in DOMAIN last_frame |->
                             Rebase(IF k = l /\ accepted(r) THEN now_ ELSE last_frame[k],
                                    d, MIN_INTERVAL_MS)]
        /\ UNCHANGED <<max_queue_size_, ctlVars, staticVars, threadVars, intervalVars, radioVars, logVars, handed,
                       started, gap, calls, pair_calls, updates, raw_calls, codecVars,
                       burst_updates>>

\* generate_command(n, light_id_, data, forward) as a step: what it does to the
\* static sequence, and what is recorded of the call
generate_command_step(n, light_id_, data, forward) ==
    /\ sequence' = NextSequence(sequence)
    /\ generated' = [n |-> n, light_id_ |-> light_id_, data |-> data, forward |-> forward,
                     sequence |-> sequence, mesh_key_ |-> mesh_key_,
                     body |-> generate_command(n, light_id_, data, forward, sequence,
                                               mesh_key_)]
    /\ encodes' = Min(encodes + 1, 2)
    /\ light_data' = light_data

\* send_raw_command(light_id, data): the mesh packet of command type 5 goes
\* straight to queueCommand
send_raw_command(light_id, data) ==
    LET accepted == ~QueueFull(Len(queue_), max_queue_size_)
    IN  /\ raw_calls < MaxRawCalls
        /\ raw_calls' = raw_calls + 1
        /\ op' = "send_raw_command"
        /\ generate_command_step(5, light_id, data, TRUE)
        /\ queue_' = enqueue(queue_, max_queue_size_,
                             prepare_payload(DEFAULT_BLE_FASTCON_ADDRESS, generated'.body))
        /\ frame_gap' = IF accepted THEN Min(now - last_frame[light_id], MIN_INTERVAL_MS)
                                    ELSE 0
        /\ last_frame' = [last_frame EXCEPT ![light_id] = IF accepted THEN now ELSE @]
        /\ sent' = <<>>
        /\ enqueue_gap' = 0
        /\ UNCHANGED <<max_queue_size_, ctlVars, staticVars, threadVars, intervalVars, radioVars, logVars, handed,
                       started, gap, calls, pair_calls, last_sent_data_, pending_data_,
                       last_state_change_, last_command_sent_, has_pending_command_,
                       frames, last_enqueue, run_frames, burst_frames, burst_updates,
                       updates, roundVars>>

WriteState ==
    /\ updates < MaxUpdates
    /\ \E l \in Lights : \E adv_data \in LightPayloads(l) : write_state(l, adv_data)
    /\ UNCHANGED roundVars

LightLoop ==
    /\ \E l \in Lights, d \in LightDeltas : light_loop(l, d)
    /\ UNCHANGED roundVars

LightNext ==
    \/ WriteState
    \/ LightLoop
    \/ SetMaxQueueSize

LightSpec == Init /\ [][LightNext]_vars

(***************************************************************************)
(* The polling loop keeps running: the loop() of every light is called     *)
(* again and again, at later and later times.                              *)
(***************************************************************************)
LightLoopOf(l) ==
    /\ \E d \in LightDeltas : light_loop(l, d)
    /\ UNCHANGED roundVars

LightLiveSpec == Init /\ [][LightNext]_vars /\ \A l \in Lights : WF_vars(LightLoopOf(l))

(***************************************************************************)
(* One light whose frames come from its debounce layer and from            *)
(* send_raw_command as well.                                               *)
(***************************************************************************)
RawWriteState ==
    /\ updates < MaxUpdates
    /\ \E l \in RawLights : \E adv_data \in LightPayloads(l) : write_state(l, adv_data)
    /\ UNCHANGED roundVars

RawLightLoop ==
    /\ \E l \in RawLights, d \in LightDeltas : light_loop(l, d)
    /\ UNCHANGED roundVars

SendRawCommand == \E l \in RawLights, data \in RawData : send_raw_command(l, data)

RawNext ==
    \/ RawWriteState
    \/ RawLightLoop
    \/ SendRawCommand
    \/ SetMaxQueueSize

RawSpec == Init /\ [][RawNext]_vars

(***************************************************************************)
(* The packet codec on its own: generate_command is called with arguments  *)
(* of every kind, and the mesh key is set in between.                      *)
(***************************************************************************)
\* set_mesh_key(key)
set_mesh_key(key) ==
    /\ mesh_key_' = key
    /\ op' = "call"
    /\ NoRadioCall
    /\ UNCHANGED <<queue_, max_queue_size_, adv_state_, state_start_time_, pairing_mode_,
                   pairing_phase_, pairing_start_time_, pairing_phase_start_,
                   pairing_light_id_, pairing_base_light_id_, sequence_counter_,
                   staticVars, threadVars, intervalVars, radioVars, logVars, calls, pair_calls, lightVars, rawVars,
                   codecVars, roundVars>>

GenerateCommand ==
    \E n \in CommandTypes, light_id_ \in CodecLightIds, data \in CodecData,
       forward \in BOOLEAN :
        /\ generate_command_step(n, light_id_, data, forward)
        /\ op' = "generate_command"
        /\ NoRadioCall
        /\ UNCHANGED <<queue_, max_queue_size_, ctlVars, staticVars, threadVars, intervalVars, radioVars, logVars,
                       calls, pair_calls, lightVars, rawVars, roundVars>>

SetMeshKey == \E key \in MeshKeys : set_mesh_key(key)

CodecNext ==
    \/ GenerateCommand
    \/ SetMeshKey

CodecSpec == Init /\ [][CodecNext]_vars

(***************************************************************************)
(* get_light_data called for one light state after another.                *)
(***************************************************************************)
LightValuesGiven ==
    [is_on : BOOLEAN, color_mode : ColorModes, brightness : Brightnesses,
     red : Reds, green : Greens, blue : Blues,
     warm_white : WarmWhites, cold_white : ColdWhites, temperature : Temperatures]

GetLightData ==
    \E values \in LightValuesGiven :
        /\ light_data' = [called |-> TRUE, values |-> values,
                          data |-> get_light_data(values)]
        /\ op' = "get_light_data"
        /\ NoRadioCall
        /\ UNCHANGED <<queue_, max_queue_size_, ctlVars, staticVars, threadVars, intervalVars, radioVars, logVars,
                       calls, pair_calls, lightVars, rawVars, sequence, generated,
                       encodes, roundVars>>

LightDataNext == GetLightData

LightDataSpec == Init /\ [][LightDataNext]_vars

(***************************************************************************)
(* The queue under threads.  The polling loop runs loop(), one thread      *)
(* calls queueCommand, another clear_queue and get_queue_size.  Every one  *)
(* of these takes queue_mutex_ with a std::lock_guard, which is released   *)
(* when the function returns (in loop(), at the end of the IDLE case).     *)
(* Each statement that reads or writes the queue is a step of its own, so  *)
(* that steps of different threads interleave wherever the mutex allows.   *)
(* The last step of a call releases the mutex.  set_max_queue_size is      *)
(* called from the configuration, before the threads start.                *)
(***************************************************************************)
\* a variant of MutexFree: the mutex never blocks
MutexFree_always(holder) == TRUE

\* std::mutex::lock() returns when no thread holds the mutex
MutexFree(holder) == holder = "none"

\* thread t moves to statement to
Goto(t, to) == pc' = [pc EXCEPT ![t] = to]

\* what no statement of these threads writes
threadFrame ==
    <<max_queue_size_, pairing_mode_, pairing_phase_, pairing_start_time_,
      pairing_phase_start_, pairing_light_id_, pairing_base_light_id_, sequence_counter_,
      mesh_key_, staticVars, radio_scanning, gap, logVars, pair_calls, lightVars, rawVars,
      codecVars, roundVars, resolved, intervalVars>>

\* std::lock_guard<std::mutex> lock(queue_mutex_), in thread t at statement at
lock_guard(t, at, to) ==
    /\ pc[t] = at
    /\ MutexFree(queue_mutex_)
    /\ queue_mutex_' = t
    /\ Goto(t, to)
    /\ op' = (IF t = "loop" THEN "loop" ELSE "call")
    /\ UNCHANGED <<queue_, adv_state_, state_start_time_, radio_advertising, handed, started,
                   calls, local, pushed, dequeued, cleared, transmitted, observed, clears,
                   threadFrame>>

\* thread t calls queueCommand with the next frame
queueCommand_call(t) ==
    /\ pc[t] = "idle"
    /\ calls < MaxCalls
    /\ calls' = calls + 1
    /\ local' = [local EXCEPT ![t] = Frame(calls + 1)]
    /\ Goto(t, "queueCommand_lock")
    /\ op' = "call"
    /\ UNCHANGED <<queue_, adv_state_, state_start_time_, radio_advertising, handed, started,
                   queue_mutex_, pushed, dequeued, cleared, transmitted, observed, clears,
                   threadFrame>>

\* queueCommand: if (queue_.size() >= max_queue_size_) return;
queueCommand_check(t) ==
    /\ pc[t] = "queueCommand_check"
    /\ IF QueueFull(Len(queue_), max_queue_size_)
           THEN Goto(t, "idle") /\ queue_mutex_' = "none"
           ELSE Goto(t, "queueCommand_push") /\ queue_mutex_' = queue_mutex_
    /\ op' = "call"
    /\ UNCHANGED <<queue_, adv_state_, state_start_time_, radio_advertising, handed, started,
                   calls, local, pushed, dequeued, cleared, transmitted, observed, clears,
                   threadFrame>>

\* queueCommand: queue_.push(cmd), and return
queueCommand_push(t) ==
    /\ pc[t] = "queueCommand_push"
    /\ queue_' = Append(queue_, [data |-> local[t], timestamp |-> now, retries |-> 0])
    /\ pushed' = pushed \cup {local[t]}
    /\ queue_mutex_' = "none"
    /\ Goto(t, "idle")
    /\ op' = "call"
    /\ UNCHANGED <<adv_state_, state_start_time_, radio_advertising, handed, started, calls,
                   local, dequeued, cleared, transmitted, observed, clears,
                   threadFrame>>

\* thread t calls clear_queue
clear_queue_call(t) ==
    /\ pc[t] = "idle"
    /\ clears < MaxClears
    /\ clears' = clears + 1
    /\ Goto(t, "clear_queue_lock")
    /\ op' = "call"
    /\ UNCHANGED <<queue_, adv_state_, state_start_time_, radio_advertising, handed, started,
                   calls, queue_mutex_, local, pushed, dequeued, cleared, transmitted,
                   observed, threadFrame>>

\* clear_queue: std::swap(queue_, empty), and return
clear_queue_swap(t) ==
    /\ pc[t] = "clear_queue_swap"
    /\ cleared' = cleared \o [i \in DOMAIN queue_ |-> queue_[i].data]
    /\ queue_' = <<>>
    /\ queue_mutex_' = "none"
    /\ Goto(t, "idle")
    /\ op' = "call"
    /\ UNCHANGED <<adv_state_, state_start_time_, radio_advertising, handed, started, calls,
                   local, pushed, dequeued, transmitted, observed, clears,
                   threadFrame>>

\* thread t calls get_queue_size
get_queue_size_call(t) ==
    /\ pc[t] = "idle"
    /\ Goto(t, "get_queue_size_lock")
    /\ op' = "call"
    /\ UNCHANGED <<queue_, adv_state_, state_start_time_, radio_advertising, handed, started,
                   calls, queue_mutex_, local, pushed, dequeued, cleared, transmitted,
                   observed, clears, threadFrame>>

\* get_queue_size: return queue_.size()
get_queue_size_return(t) ==
    /\ pc[t] = "get_queue_size_return"
    /\ observed' = get_queue_size(queue_)
    /\ queue_mutex_' = "none"
    /\ Goto(t, "idle")
    /\ op' = "call"
    /\ UNCHANGED <<queue_, adv_state_, state_start_time_, radio_advertising, handed, started,
                   calls, local, pushed, dequeued, cleared, transmitted, clears,
                   threadFrame>>

\* loop() in normal operation, ADVERTISING and GAP cases: the queue is not touched
loop_timed ==
    /\ pc["loop"] = "idle"
    /\ ~pairing_mode_
    /\ adv_state_ # "IDLE"
    /\ \E d \in {e \in NormalDeltas : e >= adv_duration_} : loop(d, TRUE, TRUE)

\* loop() in normal operation, IDLE case: switch (adv_state_)
loop_idle ==
    /\ pc["loop"] = "idle"
    /\ ~pairing_mode_
    /\ adv_state_ = "IDLE"
    /\ Goto("loop", "loop_lock")
    /\ op' = "loop"
    /\ UNCHANGED <<queue_, adv_state_, state_start_time_, radio_advertising, handed, started,
                   calls, queue_mutex_, local, pushed, dequeued, cleared, transmitted,
                   observed, clears, threadFrame>>

\* loop(), IDLE case: if (queue_.empty()) return;
loop_empty ==
    /\ pc["loop"] = "loop_empty"
    /\ IF is_queue_empty(queue_)
           THEN Goto("loop", "idle") /\ queue_mutex_' = "none"
           ELSE Goto("loop", "loop_front") /\ queue_mutex_' = queue_mutex_
    /\ op' = "loop"
    /\ UNCHANGED <<queue_, adv_state_, state_start_time_, radio_advertising, handed, started,
                   calls, local, pushed, dequeued, cleared, transmitted, observed, clears,
                   threadFrame>>

\* loop(), IDLE case: Command cmd = queue_.front().  front() of an empty queue is
\* undefined: what is copied then is any frame, or nothing
loop_front ==
    /\ pc["loop"] = "loop_front"
    /\ \E data \in (IF queue_ = <<>> THEN {Frame(n) : n \in 1..MaxCalls} \cup {<<>>}
                                     ELSE {Front(queue_).data}) :
           local' = [local EXCEPT !["loop"] = data]
    /\ Goto("loop", "loop_pop")
    /\ op' = "loop"
    /\ UNCHANGED <<queue_, adv_state_, state_start_time_, radio_advertising, handed, started,
                   calls, queue_mutex_, pushed, dequeued, cleared, transmitted, observed,
                   clears, threadFrame>>

\* loop(), IDLE case: queue_.pop().  pop() of an empty queue is undefined: the
\* queue is left empty or with any one frame
loop_pop ==
    /\ pc["loop"] = "loop_pop"
    /\ \E q \in (IF queue_ = <<>>
                     THEN {<<>>} \cup {<<[data |-> Frame(n), timestamp |-> now, retries |-> 0]>> :
                                          n \in 1..MaxCalls}
                     ELSE {Pop(queue_)}) :
           queue_' = q
    /\ dequeued' = Append(dequeued, local["loop"])
    /\ Goto("loop", "loop_advertise")
    /\ op' = "loop"
    /\ UNCHANGED <<adv_state_, state_start_time_, radio_advertising, handed, started, calls,
                   queue_mutex_, local, pushed, cleared, transmitted, observed, clears,
                   threadFrame>>

\* loop(), IDLE case: esp_ble_gap_config_adv_data_raw, esp_ble_gap_start_advertising,
\* adv_state_ = ADVERTISING, and the end of the case
loop_advertise(cfg_ok, start_ok) ==
    /\ pc["loop"] = "loop_advertise"
    /\ handed' = MeshAdvRaw(local["loop"])
    /\ IF cfg_ok /\ start_ok
           THEN /\ started' = local["loop"]
                /\ transmitted' = Append(transmitted, local["loop"])
                /\ adv_state_' = "ADVERTISING"
                /\ state_start_time_' = now
                /\ radio_advertising' = TRUE
           ELSE /\ started' = <<>>
                /\ UNCHANGED <<transmitted, adv_state_, state_start_time_, radio_advertising>>
    /\ queue_mutex_' = "none"
    /\ Goto("loop", "idle")
    /\ op' = "loop"
    /\ UNCHANGED <<queue_, calls, local, pushed, dequeued, cleared, observed, clears,
                   threadFrame>>

\* the steps of the polling loop
LoopThread ==
    \/ loop_timed
    \/ loop_idle
    \/ lock_guard("loop", "loop_lock", "loop_empty")
    \/ loop_empty
    \/ loop_front
    \/ loop_pop
    \/ \E r \in RadioResults : loop_advertise(r[1], r[2])

\* the steps of the thread that calls queueCommand
ProducerThread ==
    \/ queueCommand_call("producer")
    \/ lock_guard("producer", "queueCommand_lock", "queueCommand_check")
    \/ queueCommand_check("producer")
    \/ queueCommand_push("producer")

\* the steps of the thread that calls clear_queue and get_queue_size
ClientThread ==
    \/ clear_queue_call("client")
    \/ lock_guard("client", "clear_queue_lock", "clear_queue_swap")
    \/ clear_queue_swap("client")
    \/ get_queue_size_call("client")
    \/ lock_guard("client", "get_queue_size_lock", "get_queue_size_return")
    \/ get_queue_size_return("client")

\* set_max_queue_size, before the threads start
ThreadsSetMaxQueueSize ==
    /\ SetMaxQueueSize
    /\ calls = 0 /\ clears = 0
    /\ \A t \in Threads : pc[t] = "idle"

ThreadNext ==
    \/ LoopThread
    \/ ProducerThread
    \/ ClientThread
    \/ ThreadsSetMaxQueueSize

ThreadSpec == Init /\ [][ThreadNext]_vars

(***************************************************************************)
(* A light under threads.  The polling loop runs the loop() of the light,  *)
(* another thread calls its write_state.  Neither takes a lock: the header *)
(* adds no mutex to the light, and the statements of both are plain reads  *)
(* and writes of the members.  Each statement is a step of its own.  The   *)
(* capacity of the queue is the default one.                               *)
(***************************************************************************)
\* what no statement of these two functions writes
lightThreadFrame ==
    <<max_queue_size_, ctlVars, staticVars, radioVars, logVars, handed, started, gap,
      calls, pair_calls, frames, last_enqueue, enqueue_gap, run_frames, burst_frames,
      burst_updates, raw_calls, last_frame, frame_gap, codecVars, roundVars, queue_mutex_,
      pushed, dequeued, cleared, transmitted, observed, clears, intervalVars>>

\* write_state: pending_data_ = adv_data
write_state_pending(l, adv_data) ==
    /\ pc["writer"] = "idle"
    /\ updates < MaxUpdates
    /\ updates' = updates + 1
    /\ pending_data_' = [pending_data_ EXCEPT ![l] = adv_data]
    /\ local' = [local EXCEPT !["writer"] = adv_data]
    /\ resolved' = FALSE
    /\ Goto("writer", "write_state_time")
    /\ op' = "write_state"
    /\ UNCHANGED <<queue_, last_state_change_, has_pending_command_, last_sent_data_,
                   last_command_sent_, sent, lightThreadFrame>>

\* write_state: last_state_change_ = millis()
write_state_time(l) ==
    /\ pc["writer"] = "write_state_time"
    /\ last_state_change_' = [last_state_change_ EXCEPT ![l] = now]
    /\ Goto("writer", "write_state_flag")
    /\ op' = "write_state"
    /\ UNCHANGED <<queue_, pending_data_, has_pending_command_, last_sent_data_,
                   last_command_sent_, sent, updates, local, resolved, lightThreadFrame>>

\* write_state: has_pending_command_ = true
write_state_flag(l) ==
    /\ pc["writer"] = "write_state_flag"
    /\ has_pending_command_' = [has_pending_command_ EXCEPT ![l] = TRUE]
    /\ Goto("writer", "idle")
    /\ op' = "write_state"
    /\ UNCHANGED <<queue_, pending_data_, last_state_change_, last_sent_data_,
                   last_command_sent_, sent, updates, local, resolved, lightThreadFrame>>

\* loop() of the light, called d ms after the previous operation: nothing
\* pending, or one of the two waits, and it returns
light_loop_begin(l, d) ==
    /\ pc["light"] = "idle"
    /\ queue_' = [i \in DOMAIN queue_ |->
                      [queue_[i] EXCEPT !.timestamp = Keep(FALSE, @, d, StateHorizon)]]
    /\ last_state_change_' = [k \in DOMAIN last_state_change_ |->
                                 Rebase(last_state_change_[k], d, DEBOUNCE_MS)]
    /\ last_command_sent_' = [k \in DOMAIN last_command_sent_ |->
                                 Rebase(last_command_sent_[k], d, MIN_INTERVAL_MS)]
    /\ IF \/ ~has_pending_command_[l]
          \/ DebounceWait((now + d) - last_state_change_[l])
          \/ IntervalWait((now + d) - last_command_sent_[l])
           THEN Goto("light", "idle")
           ELSE Goto("light", "light_loop_compare")
    /\ op' = "light_wait"
    /\ sent' = <<>>
    /\ UNCHANGED <<pending_data_, has_pending_command_, last_sent_data_, updates, local,
                   resolved, lightThreadFrame>>

\* loop() of the light: if (pending_data_ == last_sent_data_)
light_loop_compare(l) ==
    /\ pc["light"] = "light_loop_compare"
    /\ IF IsDuplicate(pending_data_[l], last_sent_data_[l])
           THEN Goto("light", "light_loop_clear") /\ resolved' = TRUE
           ELSE Goto("light", "light_loop_queue") /\ resolved' = resolved
    /\ op' = "light_duplicate"
    /\ UNCHANGED <<queue_, pending_data_, last_state_change_, has_pending_command_,
                   last_sent_data_, last_command_sent_, sent, updates, local,
                   lightThreadFrame>>

\* loop() of the light, duplicate: has_pending_command_ = false; return
light_loop_clear(l) ==
    /\ pc["light"] = "light_loop_clear"
    /\ has_pending_command_' = [has_pending_command_ EXCEPT ![l] = FALSE]
    /\ Goto("light", "idle")
    /\ op' = "light_duplicate"
    /\ UNCHANGED <<queue_, pending_data_, last_state_change_, last_sent_data_,
                   last_command_sent_, sent, updates, local, resolved, lightThreadFrame>>

\* loop() of the light: controller_->queueCommand(light_id_, pending_data_)
light_loop_queue(l) ==
    /\ pc["light"] = "light_loop_queue"
    /\ queue_' = enqueue(queue_, max_queue_size_, pending_data_[l])
    /\ sent' = pending_data_[l]
    /\ resolved' = TRUE
    /\ Goto("light", "light_loop_mark")
    /\ op' = "light_send"
    /\ UNCHANGED <<pending_data_, last_state_change_, has_pending_command_, last_sent_data_,
                   last_command_sent_, updates, local, lightThreadFrame>>

\* loop() of the light, after queueCommand: the bytes and the time are recorded
\* as last sent and the pending flag is cleared
light_loop_mark(l) ==
    /\ pc["light"] = "light_loop_mark"
    /\ \E r \in {mark_sent(Light(l), now)} :
           /\ last_sent_data_' = [last_sent_data_ EXCEPT ![l] = r.last_sent_data_]
           /\ last_command_sent_' = [last_command_sent_ EXCEPT ![l] = r.last_command_sent_]
           /\ has_pending_command_' = [has_pending_command_ EXCEPT
                                          ![l] = r.has_pending_command_]
    /\ Goto("light", "idle")
    /\ op' = "light_send"
    /\ UNCHANGED <<queue_, pending_data_, last_state_change_, sent, updates, local,
                   resolved, lightThreadFrame>>

\* the steps of the thread that calls write_state
WriterThread ==
    \E l \in ThreadLights :
        \/ \E adv_data \in LightPayloads(l) : write_state_pending(l, adv_data)
        \/ write_state_time(l)
        \/ write_state_flag(l)

\* the steps of the polling loop in the loop() of the light
LightThread ==
    \E l \in ThreadLights :
        \/ \E d \in LightDeltas : light_loop_begin(l, d)
        \/ light_loop_compare(l)
        \/ light_loop_clear(l)
        \/ light_loop_queue(l)
        \/ light_loop_mark(l)

LightThreadNext ==
    \/ WriterThread
    \/ LightThread

LightThreadSpec == Init /\ [][LightThreadNext]_vars

(***************************************************************************)
(* The bounds of the advertising interval: the two setters among           *)
(* queueCommand calls and loop() calls, which start the radio with the     *)
(* bounds as they are configured then.                                     *)
(***************************************************************************)
\* set_adv_interval_min(val)
set_adv_interval_min(val) ==
    /\ adv_interval_min_' = val
    /\ adv_interval_max_' = adv_interval_max_
    /\ op' = "call"
    /\ NoRadioCall
    /\ UNCHANGED <<queue_, max_queue_size_, ctlVars, staticVars, threadVars, radioVars,
                   logVars, calls, pair_calls, lightVars, rawVars, codecVars, roundVars>>

\* set_adv_interval_max(val): the new maximum is raised to the minimum
set_adv_interval_max(val) ==
    /\ adv_interval_max_' = IF val < adv_interval_min_ THEN adv_interval_min_ ELSE val
    /\ adv_interval_min_' = adv_interval_min_
    /\ op' = "call"
    /\ NoRadioCall
    /\ UNCHANGED <<queue_, max_queue_size_, ctlVars, staticVars, threadVars, radioVars,
                   logVars, calls, pair_calls, lightVars, rawVars, codecVars, roundVars>>

\* loop(), IDLE case: the interval bounds of adv_params
AdvParams == [adv_int_min |-> adv_interval_min_, adv_int_max |-> adv_interval_max_]

SetAdvIntervalMin == \E val \in AdvIntervals : set_adv_interval_min(val)

SetAdvIntervalMax == \E val \in AdvIntervals : set_adv_interval_max(val)

IntervalNext ==
    \/ SetAdvIntervalMin
    \/ SetAdvIntervalMax
    \/ Enqueue
    \/ Tick

IntervalSpec == Init /\ [][IntervalNext]_vars

(***************************************************************************)
(* The scenario of three lights.  The updates come in rounds: a round      *)
(* begins with an update that finds no light pending, every update of the  *)
(* round arrives within 50 ms of the first one, and the lights             *)
(* are updated one after the other, all of them in every round.  The main  *)
(* loop calls the loop() of the lights in turn, the three of them in one   *)
(* iteration.                                                              *)
(***************************************************************************)
ScenarioInit == InitController /\ InitLights(ScenarioLights) /\ InitThreads

\* no light has a pending update
Settled == \A k \in DOMAIN has_pending_command_ : ~has_pending_command_[k]

\* every light has been updated in the current round
RoundComplete == \A k \in ScenarioLights : round_updates[k] > 0

ScenarioUpdate ==
    /\ updates < MaxScenarioUpdates
    /\ Settled \/ round_elapsed <= 50
    /\ \E l \in ScenarioLights :
        /\ IF Settled THEN l = 1 /\ (RoundComplete \/ updates = 0)
                      ELSE /\ \A k \in ScenarioLights : k > l => round_updates[k] = 0
                           /\ \A k \in ScenarioLights : k < l => round_updates[k] > 0
        /\ \E adv_data \in LightPayloads(l) : write_state(l, adv_data)
        /\ round_elapsed' = IF Settled THEN 0 ELSE round_elapsed
        /\ round_updates' = [k \in ScenarioLights |->
                                 IF k = l
                                     THEN IF Settled THEN 1 ELSE Min(round_updates[k] + 1, 2)
                                     ELSE IF Settled THEN 0 ELSE round_updates[k]]
        /\ round_frames' = IF Settled THEN [k \in ScenarioLights |-> 0] ELSE round_frames
        /\ UNCHANGED turn

ScenarioLoop ==
    \E d \in IF turn = 1 THEN ScenarioDeltas ELSE {0} :
        /\ light_loop(turn, d)
        /\ turn' = (turn % Cardinality(ScenarioLights)) + 1
        /\ round_elapsed' = Min(round_elapsed + d, DEBOUNCE_MS)
        /\ round_frames' = [round_frames EXCEPT ![turn] = @ + frames'[turn] - frames[turn]]
        /\ UNCHANGED round_updates

ScenarioSetMaxQueueSize == SetMaxQueueSize /\ updates = 0

ScenarioNext ==
    \/ ScenarioUpdate
    \/ ScenarioLoop
    \/ ScenarioSetMaxQueueSize

ScenarioSpec == ScenarioInit /\ [][ScenarioNext]_vars

(***************************************************************************)
(* Vocabulary of the properties.                                           *)
(***************************************************************************)
\* the frames of the queue, front first
QueueData(q) == [i \in DOMAIN q |-> q[i].data]

\* frame number n is in the queue
InQueue(n) == \E i \in DOMAIN queue_ : queue_[i].data = Frame(n)

\* p is an initial part of q
IsPrefix(p, q) == Len(p) <= Len(q) /\ SubSeq(q, 1, Len(p)) = p

FrameNumbers == 1..MaxCalls

(***************************************************************************)
(* Properties.                                                             *)
(***************************************************************************)

\* C1 as stated: in every reachable state the number of pending entries is at
\* most the configured maximum queue size.
C1_SizeAtMostMax == Len(queue_) <= max_queue_size_

\* C1, amended: no operation makes the queue longer than the configured maximum,
\* and a queue within the maximum leaves it only when set_max_queue_size lowers
\* the maximum below the number of pending entries.
C1_NeverGrowsPastMax ==
    [][/\ Len(queue_') > Len(queue_) => Len(queue_') <= max_queue_size_'
       /\ (Len(queue_) <= max_queue_size_ /\ Len(queue_') > max_queue_size_')
              => /\ max_queue_size_' < max_queue_size_
                 /\ queue_' = queue_
                 /\ op' = "call"]_vars

\* a queueCommand call has met a queue that holds exactly the maximum
C1_Witness ==
    /\ op = "call"
    /\ Len(queue_) = max_queue_size_
    /\ queue_[Len(queue_)].data # Frame(calls)

\* C2: a queueCommand call that finds max_queue_size_ entries (or more) in the
\* queue leaves the queue exactly as it was.
C2_FullQueueDropsNewest ==
    [][(calls' = calls + 1 /\ Len(queue_) >= max_queue_size_) => queue_' = queue_]_vars

\* the last queueCommand call was dropped and the older entries are still queued
C2_Witness ==
    /\ op = "call"
    /\ queue_ # <<>>
    /\ Len(queue_) = max_queue_size_
    /\ calls = Len(queue_) + 1
    /\ \A i \in DOMAIN queue_ : queue_[i].data = Frame(i)

\* C3: frames are started on the radio in the order queueCommand accepted them
\* (frame numbers are call numbers): a frame that starts has a larger number
\* than the frame started before it.
C3_TransmitInAcceptanceOrder ==
    prev_started # <<>> => prev_started[1] < last_started[1]

\* a second frame has just been started
C3_Witness == op = "loop" /\ started # <<>> /\ prev_started # <<>>

\* C4: a loop() call in normal mode changes the scheduler state only from Idle
\* to Advertising, from Advertising to Gap or from Gap to Idle.
C4_NormalTransitions ==
    [][(op' = "loop" /\ ~pairing_mode_)
          => \/ adv_state_' = adv_state_
             \/ <<adv_state_, adv_state_'>> \in {<<"IDLE", "ADVERTISING">>,
                                                <<"ADVERTISING", "GAP">>,
                                                <<"GAP", "IDLE">>}]_vars

\* without any pairing, a loop() call has brought the scheduler back to Idle
\* after a frame
C4_Witness ==
    /\ op = "loop"
    /\ pair_calls = 0
    /\ adv_state_ = "IDLE"
    /\ last_started # <<>>

\* C5: a loop() call in normal mode that enters Advertising removes exactly the
\* front entry, gives its frame to the radio and starts it, and does so at
\* least adv_duration_ + adv_gap_ ms after the previous frame started.
C5_OneFramePerCycle ==
    [][(op' = "loop" /\ ~pairing_mode_
            /\ adv_state_ # "ADVERTISING" /\ adv_state_' = "ADVERTISING")
          => /\ queue_ # <<>>
             /\ QueueData(queue_') = Tail(QueueData(queue_))
             /\ started' = Head(queue_).data
             /\ handed' = MeshAdvRaw(Head(queue_).data)
             /\ radio_advertising'
             /\ last_started # <<>> => gap' >= adv_duration_ + adv_gap_]_vars

\* a second frame has been started in a behaviour without pairing
C5_Witness ==
    /\ op = "loop"
    /\ pair_calls = 0
    /\ started # <<>>
    /\ prev_started # <<>>
    /\ adv_state_ = "ADVERTISING"

\* C6: when loop() keeps being called, no radio call fails, the queue is not
\* cleared and pairing never becomes active, every queued frame is eventually
\* started, and the scheduler goes from Idle with a non-empty queue to
\* Advertising, from Advertising to Gap and from Gap to Idle.
C6_SchedulerLiveness ==
    \/ <>pairing_mode_
    \/ /\ \A n \in FrameNumbers : InQueue(n) ~> (started = Frame(n))
       /\ (adv_state_ = "IDLE" /\ queue_ # <<>>) ~> (adv_state_ = "ADVERTISING")
       /\ (adv_state_ = "ADVERTISING") ~> (adv_state_ = "GAP")
       /\ (adv_state_ = "GAP") ~> (adv_state_ = "IDLE")

\* without any pairing, two frames have gone through the cycle
C6_Witness ==
    /\ op = "loop"
    /\ pair_calls = 0
    /\ adv_state_ = "IDLE"
    /\ prev_started # <<>>
    /\ queue_ = <<>>

\* the discovery and the pairing advertisement a loop() call can hand over
\* from the present state, for the light id the call ends with
SessionPayloads(light_id) ==
    {PairingAdvRaw(build_discovery_advertisement(disc_counter)),
     PairingAdvRaw(build_pairing_advertisement(pairing_counter, light_id, mesh_key_))}

\* C7: a loop() call made while a pairing session is active takes nothing from
\* the queue and starts no mesh frame; what it gives to the radio is a
\* discovery or a pairing advertisement; during the session the frames of the
\* queue change only by queueCommand and clear_queue.
C7_PairingOwnsRadio ==
    [][pairing_mode_
          => /\ op' = "loop"
                => /\ QueueData(queue_') = QueueData(queue_)
                   /\ started' = <<>>
                   /\ handed' # <<>>
                        => /\ handed' \in SessionPayloads(pairing_light_id_')
                           /\ handed'[8] \in {CmdDiscovery, CmdPairing}
                           /\ \A n \in FrameNumbers : handed' # MeshAdvRaw(Frame(n))
             /\ QueueData(queue_') # QueueData(queue_)
                => /\ op' = "call"
                   /\ \/ /\ calls' = calls + 1
                         /\ QueueData(queue_') = Append(QueueData(queue_), Frame(calls'))
                      \/ /\ calls' = calls
                         /\ queue_' = <<>>]_vars

\* a loop() call of a session has advertised while a frame was queued
C7_Witness ==
    /\ op = "loop"
    /\ pairing_mode_
    /\ handed # <<>>
    /\ queue_ # <<>>

\* C8: entering a pairing session and every step of it keep the queued frames
\* in place and in order (new ones are appended), and when loop() keeps being
\* called and the radio calls succeed every frame queued during a session is
\* started after the session has ended.
C8_QueueSurvivesPairing ==
    /\ [][(pairing_mode_ \/ pairing_mode_')
             => IsPrefix(QueueData(queue_), QueueData(queue_'))]_vars
    /\ \A n \in FrameNumbers :
           (pairing_mode_ /\ InQueue(n)) ~> (~pairing_mode_ /\ started = Frame(n))

\* the loop() call that ended a session left two frames queued in order
C8_Witness ==
    /\ op = "loop"
    /\ pair_calls > 0
    /\ ~pairing_mode_
    /\ radio_scanning
    /\ last_started = <<>>
    /\ QueueData(queue_) = <<Frame(1), Frame(2)>>

\* C9: a loop() call of a session made 60000 ms or more after the session
\* started leaves pairing mode with the radio stopped, the scheduler Idle and
\* scanning restarted, and hands nothing to the radio; a call made earlier
\* stays in pairing mode.
C9_PairingTimeout ==
    [][(op' = "loop" /\ pairing_mode_)
          => LET elapsed == 0 - pairing_start_time_'
             IN  /\ elapsed >= 60000
                    => /\ ~pairing_mode_'
                       /\ ~radio_advertising'
                       /\ adv_state_' = "IDLE"
                       /\ radio_scanning'
                       /\ handed' = <<>>
                 /\ elapsed < 60000 => pairing_mode_']_vars

\* a session has ended by the call made exactly 60000 ms after its start
C9_Witness ==
    /\ op = "loop"
    /\ pairing_start_time_ = 0 - PairingTimeoutMs
    /\ pair_calls > 0
    /\ ~pairing_mode_
    /\ radio_scanning
    /\ ~radio_advertising
    /\ adv_state_ = "IDLE"

\* C10: what a loop() call of a session gives to the radio is a discovery
\* advertisement (0x4e) when less than 4000 ms of the session have elapsed and
\* a pairing advertisement (0x6e) from 4000 ms on, and a session in the Pairing
\* phase stays in it.
C10_PhaseByElapsed ==
    /\ [](op = "loop" /\ pairing_mode_ /\ handed # <<>>
            => /\ 0 - pairing_start_time_ < 4000 => handed[8] = 78
               /\ 0 - pairing_start_time_ >= 4000 => handed[8] = 110)
    /\ [][(pairing_mode_ /\ pairing_phase_ = "PAIRING" /\ op' = "loop" /\ pairing_mode_')
             => pairing_phase_' = "PAIRING"]_vars

\* a pairing advertisement was handed over exactly 4000 ms into the session
C10_Witness ==
    /\ op = "loop"
    /\ pairing_mode_
    /\ pairing_start_time_ = 0 - 4000
    /\ handed # <<>>
    /\ handed[8] = CmdPairing

\* the light id a loop() call of the Pairing phase leaves: the base id plus one
\* for every 5000 ms since the phase started
C11_IdBySlot ==
    [][(op' = "loop" /\ pairing_mode_ /\ pairing_mode_' /\ pairing_phase_' = "PAIRING")
          => /\ pairing_light_id_' =
                    pairing_base_light_id_ + ((0 - pairing_phase_start_') \div 5000)
             /\ pairing_phase_ = "DISCOVERY" => pairing_light_id_' = pairing_base_light_id_
             /\ handed' # <<>> => handed'[10] = pairing_light_id_' % 256]_vars

\* C11 as stated: after any loop() call in the Pairing phase the light id is
\* base id + floor(phase_elapsed / 5000), it starts at the base id, and a
\* pairing advertisement carries the light id of the one before it or that
\* id plus one.
C11_AsStated ==
    /\ C11_IdBySlot
    /\ [][(op' = "loop" /\ pairing_mode_ /\ pairing_phase_ = "PAIRING" /\ handed' # <<>>)
             => pairing_light_id_' - pairing_light_id_ \in {0, 1}]_vars

\* C11, amended: the light id is base id + floor(phase_elapsed / 5000) after
\* any loop() call in the Pairing phase and starts at the base id; it never
\* decreases, and a pairing advertisement built less than 5000 ms after the
\* operation before it carries the previous light id or that id plus one.
C11_LightIdAutoIncrement ==
    /\ C11_IdBySlot
    /\ [][(op' = "loop" /\ pairing_mode_ /\ pairing_phase_ = "PAIRING" /\ handed' # <<>>)
             => /\ pairing_light_id_' >= pairing_light_id_
                /\ pairing_start_time_ - pairing_start_time_' < 5000
                      => pairing_light_id_' - pairing_light_id_ \in {0, 1}]_vars

\* the loop() call made 5000 ms after the Pairing phase began advertised the
\* base id plus one
C11_Witness ==
    /\ op = "loop"
    /\ pairing_mode_
    /\ pairing_phase_ = "PAIRING"
    /\ pairing_phase_start_ = 0 - 5000
    /\ pairing_light_id_ = pairing_base_light_id_ + 1
    /\ handed # <<>>
    /\ handed[10] = pairing_light_id_

\* body with its header decrypted, its data left as they are
HeaderPlain(body) ==
    [i \in DOMAIN body |->
        IF i <= 4 THEN Xor(body[i], DEFAULT_ENCRYPT_KEY[i]) ELSE body[i]]

\* body decrypted, its data with the mesh key
Plain(body, key) ==
    [i \in DOMAIN body |->
        IF i <= 4 THEN Xor(body[i], DEFAULT_ENCRYPT_KEY[i])
                  ELSE Xor(body[i], key[((i - 5) % 4) + 1])]

\* the sum modulo 256 of the bytes of body other than the one at index 3
SumButChecksum(body) ==
    LET S[i \in 0..Len(body)] ==
            IF i = 0 THEN 0 ELSE S[i - 1] + (IF i = 4 THEN 0 ELSE body[i])
    IN  S[Len(body)] % 256

(***************************************************************************)
(* C12: the debounce layer never puts into the queue a frame for a light   *)
(* whose bytes equal the bytes recorded as last sent for that light, and   *)
(* of the updates of one light that follow each other with identical bytes *)
(* at most one frame is enqueued, whatever the times of the updates and of *)
(* the loop() calls.                                                       *)
(***************************************************************************)
C12_Dedup ==
    [][\A l \in Lights :
          /\ frames'[l] > frames[l]
                => /\ Len(queue_') = Len(queue_) + 1
                   /\ queue_'[Len(queue_')].data # last_sent_data_[l]
          /\ run_frames'[l] <= 1]_vars

\* a second update with the bytes of the frame already enqueued has been
\* suppressed by the light's loop()
C12_Witness ==
    \E l \in Lights :
        /\ op = "light_duplicate"
        /\ run_frames[l] = 1
        /\ ~has_pending_command_[l]
        /\ pending_data_[l] = last_sent_data_[l]
        /\ \A k \in Lights \ {l} : pending_data_[k] = <<>>

(***************************************************************************)
(* C13: for every light, two frames enqueued for it are enqueued at least  *)
(* the minimum interval of 300 ms apart.  As stated, of all the frames of  *)
(* the light; as it holds, of the frames the debounce layer enqueues.      *)
(***************************************************************************)
C13_AsStated ==
    [][Len(queue_') > Len(queue_) => frame_gap' >= 300]_vars

C13_RateLimit ==
    [][\A l \in Lights : frames'[l] > frames[l] => enqueue_gap' >= 300]_vars

\* a light's second frame from the debounce layer, 300 ms after its first
C13_Witness ==
    \E l \in Lights :
        /\ op = "light_send"
        /\ frames[l] = 2
        /\ enqueue_gap = 300
        /\ last_enqueue[l] = 0

(***************************************************************************)
(* C14: updates for each of three lights, all within 50 ms of each other,  *)
(* give exactly three enqueued frames, one per light, once the settle      *)
(* window of 100 ms and the minimum interval of 300 ms have let every      *)
(* light's loop() deal with its update.  As it holds: at most one frame    *)
(* per light, none before 100 ms have passed since the light's last        *)
(* update, and a light gets its frame exactly when its last update differs *)
(* from its last-sent bytes and the queue is not full.                     *)
(***************************************************************************)
C14_AsStated ==
    (RoundComplete /\ Settled /\ Len(queue_) < max_queue_size_)
        => \A l \in ScenarioLights : round_frames[l] = 1

C14_ThreeLights ==
    [][\A l \in ScenarioLights :
          /\ round_frames'[l] <= 1
          /\ round_frames'[l] > round_frames[l] => last_state_change_'[l] = 0 - 100
          /\ (has_pending_command_[l] /\ ~has_pending_command_'[l])
                => (round_frames'[l] = 1
                       <=> /\ pending_data_[l] # last_sent_data_[l]
                           /\ Len(queue_) < max_queue_size_)]_vars

\* a round in which one light was updated more than once has given each of
\* the three lights its one frame
C14_Witness ==
    /\ RoundComplete
    /\ Settled
    /\ \A l \in ScenarioLights : round_frames[l] = 1
    /\ round_updates[1] = 2
    /\ Len(queue_) >= 3

(***************************************************************************)
(* C15: of a burst of updates of one light, each less than the settle      *)
(* window of 100 ms after the one before, exactly one frame is enqueued,   *)
(* and it carries the value of the last update of the burst.  As it holds: *)
(* at most one frame, carrying the last value; the loop() call that deals  *)
(* with the burst enqueues it exactly when that value differs from the     *)
(* last-sent bytes and the queue is not full.                              *)
(***************************************************************************)
C15_AsStated ==
    \A l \in Lights :
        (burst_updates[l] = 2 /\ ~has_pending_command_[l] /\ Len(queue_) < max_queue_size_)
            => /\ burst_frames[l] = 1
               /\ last_sent_data_[l] = pending_data_[l]

C15_Coalescing ==
    [][\A l \in Lights :
          /\ burst_frames'[l] <= 1
          /\ frames'[l] > frames[l]
                => /\ Len(queue_') = Len(queue_) + 1
                   /\ queue_'[Len(queue_')].data = pending_data_[l]
                   /\ pending_data_'[l] = pending_data_[l]
          /\ (has_pending_command_[l] /\ ~has_pending_command_'[l])
                => (burst_frames'[l] = 1
                       <=> /\ pending_data_[l] # last_sent_data_[l]
                           /\ Len(queue_) < max_queue_size_)]_vars

\* the frame of a burst of more than one update has just been enqueued, with
\* the bytes of the last update
C15_Witness ==
    \E l \in Lights :
        /\ op = "light_send"
        /\ burst_updates[l] = 2
        /\ burst_frames[l] = 1
        /\ Len(queue_) > 0
        /\ queue_[Len(queue_)].data = pending_data_[l]
        /\ sent = pending_data_[l]

(***************************************************************************)
(* C16: the sequence bytes of successive generated frames are              *)
(* 0, 1, 2, ..., 254, 1, 2, ...: always in 0..254, never 255, and 0 only   *)
(* in the first frame.                                                     *)
(***************************************************************************)
C16_SequenceByte ==
    [][op' = "generate_command"
          => /\ generated'.sequence = (IF encodes = 0 THEN 0
                                       ELSE IF generated.sequence = 254 THEN 1
                                       ELSE generated.sequence + 1)
             /\ generated'.sequence \in 0..254
             /\ generated'.sequence = 0 => encodes' = 1
             /\ Xor(generated'.body[2], DEFAULT_ENCRYPT_KEY[2]) = generated'.sequence]_vars

\* the frame with sequence byte 254 has been generated and the counter has
\* gone back to 1
C16_Witness ==
    /\ op = "generate_command"
    /\ generated.sequence = 254
    /\ sequence = 1
    /\ encodes = 2

(***************************************************************************)
(* C17: the body generate_command builds before the RF formatting has the  *)
(* length of the data plus 4, and the low nibble of its plain byte 0 is    *)
(* the low nibble of the high byte of the light id, bits 4-6 are the       *)
(* command type modulo 8 and bit 7 is the forward flag.  As stated, the    *)
(* body depends on the arguments and on the sequence counter only; as it   *)
(* holds, on the mesh key of the controller as well: plain byte 2 is the   *)
(* fourth byte of the mesh key and the data are encrypted with it.         *)
(***************************************************************************)
C17_Shape ==
    LET g == generated
        b0 == Xor(g.body[1], DEFAULT_ENCRYPT_KEY[1])
    IN  op = "generate_command"
            => /\ Len(g.body) = Len(g.data) + 4
               /\ b0 % 16 = (g.light_id_ \div 256) % 16
               /\ (b0 \div 16) % 8 = g.n % 8
               /\ (b0 \div 128 = 1) <=> g.forward

C17_AsStated ==
    /\ C17_Shape
    /\ op = "generate_command"
          => \A key \in MeshKeys :
                 generated.body = generate_command(generated.n, generated.light_id_,
                                                   generated.data, generated.forward,
                                                   generated.sequence, key)

C17_Body ==
    LET g == generated
    IN  /\ C17_Shape
        /\ op = "generate_command"
              => /\ Xor(g.body[2], DEFAULT_ENCRYPT_KEY[2]) = g.sequence
                 /\ Xor(g.body[3], DEFAULT_ENCRYPT_KEY[3]) = g.mesh_key_[4]
                 /\ \A i \in 1..Len(g.data) :
                        Xor(g.body[4 + i], g.mesh_key_[((i - 1) % 4) + 1]) = g.data[i]

\* a command of type 10 with the forward flag for light 0xABCD, with seven
\* bytes of data, generated under a mesh key that is not zero
C17_Witness ==
    /\ op = "generate_command"
    /\ generated.n = 10
    /\ generated.light_id_ = 43981
    /\ generated.forward
    /\ Len(generated.body) = 11
    /\ generated.mesh_key_ = <<17, 34, 51, 68>>
    /\ Xor(generated.body[1], DEFAULT_ENCRYPT_KEY[1]) = 128 + 32 + 11

(***************************************************************************)
(* C18: in every generated frame the bytes other than the one at index 3,  *)
(* summed modulo 256, give the byte at index 3.  As stated, after          *)
(* decrypting the header bytes; as it holds, after decrypting the header   *)
(* bytes and, with the mesh key, the data bytes.                           *)
(***************************************************************************)
C18_AsStated ==
    op = "generate_command"
        => SumButChecksum(HeaderPlain(generated.body)) = HeaderPlain(generated.body)[4]

C18_Checksum ==
    op = "generate_command"
        => SumButChecksum(Plain(generated.body, generated.mesh_key_))
               = Plain(generated.body, generated.mesh_key_)[4]

\* a frame with seven bytes of data generated under a mesh key that is not
\* zero: its encrypted data do not sum to the checksum
C18_Witness ==
    /\ op = "generate_command"
    /\ generated.mesh_key_ = <<17, 34, 51, 68>>
    /\ Len(generated.data) = 7
    /\ SumButChecksum(HeaderPlain(generated.body)) # HeaderPlain(generated.body)[4]
    /\ SumButChecksum(Plain(generated.body, generated.mesh_key_))
           = Plain(generated.body, generated.mesh_key_)[4]

(***************************************************************************)
(* C19: clear_queue leaves the queue empty (size 0, is_queue_empty true)   *)
(* and changes nothing else: the scheduler state and its start time, the   *)
(* radio, the pairing session and the sequence counters stay as they are,  *)
(* and so does the frame that was taken from the queue and is being        *)
(* advertised.  The call is the one that is neither queueCommand nor       *)
(* pair_device and changes the queue.                                      *)
(***************************************************************************)
C19_ClearQueueFrame ==
    [][(op' = "call" /\ calls' = calls /\ pair_calls' = pair_calls /\ queue_' # queue_)
          => /\ get_queue_size(queue_') = 0
             /\ is_queue_empty(queue_')
             /\ UNCHANGED <<adv_state_, state_start_time_, max_queue_size_>>
             /\ UNCHANGED <<radio_advertising, radio_scanning>>
             /\ UNCHANGED <<pairing_mode_, pairing_phase_, pairing_start_time_,
                            pairing_phase_start_, pairing_light_id_,
                            pairing_base_light_id_, mesh_key_>>
             /\ UNCHANGED <<sequence_counter_, disc_counter, pairing_counter, sequence>>
             /\ UNCHANGED <<last_started, prev_started, last_tx>>]_vars

\* clear_queue has emptied the queue while the first frame was being
\* advertised: the second frame is gone, the advertisement goes on
C19_Witness ==
    /\ op = "call"
    /\ calls = 2
    /\ max_queue_size_ = DefaultMaxQueueSize
    /\ is_queue_empty(queue_)
    /\ adv_state_ = "ADVERTISING"
    /\ radio_advertising
    /\ last_started # <<>>
    /\ prev_started = <<>>

(***************************************************************************)
(* C20: when esp_ble_gap_config_adv_data_raw or                            *)
(* esp_ble_gap_start_advertising fails in a loop() call in normal          *)
(* operation with the scheduler idle, the scheduler stays idle, its        *)
(* state_start_time_ is not written, and the next loop() call attempts a   *)
(* transmission again.                                                     *)
(***************************************************************************)
\* this step is a loop() call in normal operation, scheduler idle, in which
\* the advertisement was configured but did not start
FailedIdleTick ==
    /\ op' = "loop"
    /\ ~pairing_mode_
    /\ adv_state_ = "IDLE"
    /\ handed' # <<>>
    /\ started' = <<>>

\* the scheduler does not advance on a failure: the body of loop() returns
\* idle, with state_start_time_ as it was, whichever call fails
StaysIdle ==
    FailedIdleTick
        => /\ adv_state_' = "IDLE"
           /\ ~radio_advertising'
           /\ \A d \in NormalDeltas, r \in RadioResults :
                  ~(r[1] /\ r[2])
                      => LET s == loop_normal(Cur, now + d, r[1], r[2])
                         IN  /\ s.adv_state_ = "IDLE"
                             /\ s.state_start_time_ = state_start_time_

\* the loop() call after the failure hands an advertisement to the radio
AttemptsAgain ==
    (/\ op = "loop"
     /\ ~pairing_mode_
     /\ adv_state_ = "IDLE"
     /\ handed # <<>>
     /\ started = <<>>
     /\ op' = "loop")
        => handed' # <<>>

C20_AsStated == [][StaysIdle /\ AttemptsAgain]_vars

FailedTickStaysIdle == [][StaysIdle]_vars

(***************************************************************************)
(* C21: a frame whose esp_ble_gap_config_adv_data_raw or                   *)
(* esp_ble_gap_start_advertising call fails is not lost: it is still the   *)
(* front of the queue when that loop() call returns, and the next          *)
(* advertisement that starts carries that frame.                           *)
(***************************************************************************)
\* the frame of the failed call is kept for the next loop() call
FailedFrameKept ==
    FailedIdleTick
        => /\ queue_' # <<>>
           /\ MeshAdvRaw(Front(queue_').data) = handed'

\* the advertisement started by the loop() call after the failure is the one
\* that failed
FailedFrameStartsNext ==
    (/\ op = "loop"
     /\ ~pairing_mode_
     /\ adv_state_ = "IDLE"
     /\ handed # <<>>
     /\ started = <<>>
     /\ started' # <<>>)
        => MeshAdvRaw(started') = handed

C21_AsStated == [][FailedFrameKept /\ FailedFrameStartsNext]_vars

(***************************************************************************)
(* C22: whenever loop() auto-increments the pairing light id, the counter  *)
(* byte of the pairing advertisement it then hands to the radio is the     *)
(* initial value 0x50.                                                     *)
(***************************************************************************)
\* the counter byte of a pairing advertisement as handed to the radio:
\* adv_data[14] of build_pairing_advertisement, the 6 MAC bytes skipped
CounterByte(raw) == raw[9]

\* this step is a loop() call that moves the session to another light id
LightIdIncrement ==
    /\ op' = "loop"
    /\ pairing_mode_
    /\ pairing_mode_'
    /\ pairing_phase_' = "PAIRING"
    /\ pairing_light_id_' # pairing_light_id_

C22_AsStated ==
    [][(LightIdIncrement /\ handed' # <<>>) => CounterByte(handed') = CounterStart]_vars

(***************************************************************************)
(* C23: a loop() call that changes the pairing phase (Discovery to         *)
(* Pairing) or the pairing light id stops the radio and resets the         *)
(* advertising sub-state to IDLE before it builds an advertisement, and    *)
(* the advertisement it gives to the radio is built from the new phase and *)
(* the new light id.                                                       *)
(***************************************************************************)
\* this step is a loop() call of a session that changes the phase or the light id
PairingTransition ==
    /\ op' = "loop"
    /\ pairing_mode_
    /\ pairing_phase_' # pairing_phase_ \/ pairing_light_id_' # pairing_light_id_

\* loop() called d ms from now, up to the end of its phase and light id blocks;
\* in a session d is what the call takes off pairing_start_time_
AfterTransitions(d) ==
    pairing_light_id_increment(pairing_phase_transition(Cur, now + d), now + d)

\* the advertisement of the phase and light id the step ends with, built with
\* the counters the step began with
AdvertisementOfNewState ==
    PairingAdvRaw(PhaseAdvertisement(pairing_phase_', disc_counter, pairing_counter,
                                     pairing_light_id_', mesh_key_))

C23_TransitionResets ==
    [][/\ PairingTransition
          => /\ LET s == AfterTransitions(pairing_start_time_ - pairing_start_time_')
                IN  /\ s.pairing_phase_ = pairing_phase_'
                    /\ s.pairing_light_id_ = pairing_light_id_'
                    /\ s.adv_state_ = "IDLE"
                    /\ ~s.radio_advertising
             /\ pairing_mode_' => handed' # <<>>
             /\ handed' # <<>> => handed' = AdvertisementOfNewState
             /\ \/ adv_state_' = "IDLE" /\ ~radio_advertising'
                \/ /\ adv_state_' = "ADVERTISING"
                   /\ radio_advertising'
                   /\ handed' # <<>>
                   /\ state_start_time_' = now
       /\ (op' = "loop" /\ pairing_mode_ /\ handed' # <<>>)
             => handed' = AdvertisementOfNewState]_vars

\* the loop() call made 4000 ms into a session that had advertised in the
\* Discovery phase changed the phase and started a pairing advertisement
C23_Witness ==
    /\ op = "loop"
    /\ pairing_mode_
    /\ pairing_start_time_ = 0 - DiscoveryMs
    /\ pairing_phase_ = "PAIRING"
    /\ pairing_phase_start_ = now
    /\ disc_counter > 0
    /\ adv_state_ = "ADVERTISING"
    /\ radio_advertising
    /\ state_start_time_ = now
    /\ handed # <<>>
    /\ handed[8] = CmdPairing

(***************************************************************************)
(* C24: in a pairing session, a loop() call that finds an advertisement on *)
(* the air and changes neither the phase nor the light id builds and       *)
(* starts a new advertisement if and only if at least 100 ms have passed   *)
(* since the one on the air started; otherwise it leaves that one on the   *)
(* air.  The radio calls succeed.                                          *)
(***************************************************************************)
\* ms between this step's loop() call and the operation before it
StepDelta == pairing_start_time_ - pairing_start_time_'

\* this step is a loop() call of a session that finds an advertisement on the
\* air and changes neither the phase nor the light id
SteadySessionTick ==
    /\ op' = "loop"
    /\ pairing_mode_
    /\ pairing_mode_'
    /\ adv_state_ = "ADVERTISING"
    /\ radio_advertising
    /\ pairing_phase_' = pairing_phase_
    /\ pairing_light_id_' = pairing_light_id_

C24_ReadvertisePeriod ==
    [][SteadySessionTick
          => LET elapsed == (now + StepDelta) - state_start_time_
             IN  /\ elapsed >= 100
                    => /\ handed' = PairingAdvRaw(PhaseAdvertisement(
                                        pairing_phase_, disc_counter, pairing_counter,
                                        pairing_light_id_, mesh_key_))
                       /\ adv_state_' = "ADVERTISING"
                       /\ radio_advertising'
                       /\ state_start_time_' = now
                       /\ disc_counter' + pairing_counter'
                              = disc_counter + pairing_counter + 1
                 /\ elapsed < 100
                    => /\ handed' = <<>>
                       /\ adv_state_' = "ADVERTISING"
                       /\ radio_advertising'
                       /\ state_start_time_' = state_start_time_ - StepDelta
                       /\ disc_counter' = disc_counter
                       /\ pairing_counter' = pairing_counter]_vars

\* the loop() call made exactly 100 ms after the first pairing advertisement
\* started has built and started the second one
C24_Witness ==
    /\ op = "loop"
    /\ pairing_mode_
    /\ pairing_phase_ = "PAIRING"
    /\ pairing_start_time_ = 0 - (DiscoveryMs + ReadvertiseMs)
    /\ pairing_phase_start_ = 0 - ReadvertiseMs
    /\ pairing_counter = CounterStart + 2
    /\ handed # <<>>
    /\ adv_state_ = "ADVERTISING"
    /\ radio_advertising
    /\ state_start_time_ = now

(***************************************************************************)
(* C25: the bytes of every pairing advertisement given to                  *)
(* esp_ble_gap_config_adv_data_raw end with the three bytes of             *)
(* calculate_pairing_crc that build_pairing_advertisement appended to it.  *)
(***************************************************************************)
\* the three bytes build_pairing_advertisement appends: calculate_pairing_crc of
\* the advertisement without them, most significant byte first
PairingCrcBytes(adv_data) ==
    LET crc == calculate_pairing_crc(SubSeq(adv_data, 1, Len(adv_data) - 3))
    IN  <<(crc \div 65536) % 256, (crc \div 256) % 256, crc % 256>>

\* the pairing advertisement the last loop() call built: pairing_counter has
\* been incremented since
LastPairingAdvertisement ==
    build_pairing_advertisement((pairing_counter + 255) % 256, pairing_light_id_,
                                mesh_key_)

\* the last loop() call gave a pairing advertisement to the radio
PairingAdvertisementHanded ==
    /\ op = "loop"
    /\ pairing_mode_
    /\ pairing_phase_ = "PAIRING"
    /\ handed # <<>>

C25_AsStated ==
    PairingAdvertisementHanded
        => /\ Len(handed) >= 3
           /\ SubSeq(handed, Len(handed) - 2, Len(handed))
                  = PairingCrcBytes(LastPairingAdvertisement)

(***************************************************************************)
(* C26: for every light state that is on, whatever its color mode, byte 0  *)
(* of the payload of get_light_data is 0x80 | b with b the brightness      *)
(* scaled to 0..127; only a state that is off gives a byte 0 with the top  *)
(* bit clear, and its payload is the single byte 0x00.                     *)
(***************************************************************************)
C26_AsStated ==
    light_data.called
        => /\ light_data.values.is_on
                => light_data.data[1] = 128 + Brightness127(light_data.values.brightness)
           /\ light_data.data[1] < 128
                => ~light_data.values.is_on /\ light_data.data = <<0>>

(***************************************************************************)
(* C27: under every interleaving of queueCommand, clear_queue,             *)
(* get_queue_size and loop() running in different threads, every frame     *)
(* pushed into the queue is in exactly one place: still in the queue,      *)
(* popped once by loop(), or discarded once by clear_queue; no frame is    *)
(* advertised twice, and only popped frames are; loop() never calls        *)
(* front() or pop() on an empty queue and pops the entry it has copied;    *)
(* get_queue_size returns the number of frames pushed and neither popped   *)
(* nor discarded.                                                          *)
(***************************************************************************)
\* no element of s occurs twice
NoDuplicates(s) == \A i, j \in DOMAIN s : i # j => s[i] # s[j]

\* the elements of s
Range(s) == {s[i] : i \in DOMAIN s}

\* the frames that have left the queue: popped or discarded
LeftQueue == dequeued \o cleared

C27_QueueUnderThreads ==
    /\ [](/\ NoDuplicates(QueueData(queue_) \o LeftQueue)
          /\ Range(QueueData(queue_) \o LeftQueue) = pushed
          /\ NoDuplicates(transmitted)
          /\ Range(transmitted) \subseteq Range(dequeued)
          /\ pc["loop"] \in {"loop_front", "loop_pop"} => queue_ # <<>>
          /\ pc["loop"] = "loop_pop" => Front(queue_).data = local["loop"])
    /\ [][(pc["client"] = "get_queue_size_return" /\ pc'["client"] = "idle")
             => observed' = Cardinality(pushed) - Len(LeftQueue)]_vars

\* loop() has copied the front entry and not yet popped it, while one thread
\* waits for the mutex in clear_queue and the other in queueCommand
C27_Witness ==
    /\ queue_mutex_ = "loop"
    /\ pc["loop"] = "loop_pop"
    /\ pc["client"] = "clear_queue_lock"
    /\ pc["producer"] = "queueCommand_lock"

(***************************************************************************)
(* C28: whenever write_state and the loop() of the same light, run in      *)
(* different threads, have both returned, the bytes of the last            *)
(* write_state are still pending, or they have been handed to queueCommand *)
(* or found equal to the last sent bytes since they were stored, or they   *)
(* are the bytes of the last command that was enqueued.                    *)
(***************************************************************************)
\* the bytes of the last write_state of light l are pending
NewestPending(l) == has_pending_command_[l] /\ pending_data_[l] = local["writer"]

\* the last command that was enqueued carries the bytes of the last write_state
NewestEnqueued == queue_ # <<>> /\ queue_[Len(queue_)].data = local["writer"]

C28_AsStated ==
    (pc["writer"] = "idle" /\ pc["light"] = "idle" /\ updates > 0)
        => \A l \in ThreadLights : NewestPending(l) \/ resolved \/ NewestEnqueued

(***************************************************************************)
(* C29: when loop() or pair_device returns, in normal operation and in     *)
(* pairing mode and after a failed configuration or start as well, the     *)
(* radio is advertising if and only if adv_state_ is ADVERTISING.          *)
(***************************************************************************)
C29_AsStated == radio_advertising <=> adv_state_ = "ADVERTISING"

(***************************************************************************)
(* C30: a frame that loop() took from the queue and started on the radio   *)
(* stays on the air for at least adv_duration_ milliseconds before the     *)
(* radio is stopped or given another payload, whichever of loop(),         *)
(* pair_device, queueCommand and clear_queue is called meanwhile.          *)
(***************************************************************************)
\* a frame of the queue is on the air
FrameOnAir ==
    /\ ~pairing_mode_
    /\ adv_state_ = "ADVERTISING"
    /\ radio_advertising
    /\ last_started # <<>>

\* this step stops the radio or hands it another payload
RadioTakenAway == ~radio_advertising' \/ handed' # <<>>

\* the time since the frame was started, at the end of this step
OnAirTime == 0 - last_tx'

C30_AsStated ==
    [][(FrameOnAir /\ RadioTakenAway) => OnAirTime >= adv_duration_]_vars

\* as it is: loop() leaves the frame on the air for adv_duration_, queueCommand,
\* clear_queue and set_max_queue_size leave the radio alone, and pair_device
\* stops the radio at once, whatever the age of the frame
C30_FrameOnAir ==
    [][FrameOnAir =>
          IF pair_calls' # pair_calls
              THEN ~radio_advertising' /\ adv_state_' = "IDLE" /\ pairing_mode_'
              ELSE /\ RadioTakenAway => op' = "loop" /\ OnAirTime >= adv_duration_
                   /\ (op' = "loop" /\ OnAirTime >= adv_duration_) => ~radio_advertising'
                   /\ op' = "call" => radio_advertising' /\ adv_state_' = "ADVERTISING"]_vars

\* loop() has stopped a frame that was on the air for adv_duration_, with
\* another frame enqueued meanwhile
C30_Witness ==
    /\ op = "loop"
    /\ ~pairing_mode_
    /\ adv_state_ = "GAP"
    /\ ~radio_advertising
    /\ last_started # <<>>
    /\ 0 - last_tx >= adv_duration_
    /\ queue_ # <<>>

(***************************************************************************)
(* C31: whenever the loop() of a light records bytes as last sent and      *)
(* clears the pending flag after handing them to queueCommand, the queue   *)
(* has taken a command with these bytes: a command dropped at a full queue *)
(* is not recorded as sent.                                                *)
(***************************************************************************)
\* this step is a loop() call of light l that hands the pending bytes to
\* queueCommand and records them as last sent
RecordedAsSent(l) ==
    /\ op' = "light_send"
    /\ has_pending_command_[l]
    /\ ~has_pending_command_'[l]
    /\ sent' = pending_data_[l]
    /\ last_sent_data_'[l] = sent'

\* the queue has taken a command with the bytes handed over in this step
QueueTookCommand ==
    /\ Len(queue_') = Len(queue_) + 1
    /\ queue_'[Len(queue_')].data = sent'

C31_AsStated ==
    [][\A l \in Lights : RecordedAsSent(l) => QueueTookCommand]_vars

(***************************************************************************)
(* C32: when the loop() of the lights keeps being called and no further    *)
(* update arrives, a pending update of a light is eventually resolved: the *)
(* pending flag is cleared in a loop() call in which the queue took the    *)
(* command or the bytes were found equal to the last sent ones, and not    *)
(* before DEBOUNCE_MS since the last change and MIN_INTERVAL_MS since the  *)
(* last send had passed.                                                   *)
(***************************************************************************)
\* this step clears the pending flag of light l
PendingCleared(l) == has_pending_command_[l] /\ ~has_pending_command_'[l]

\* this step enqueues the pending bytes of light l, or finds them equal to the
\* bytes last sent
ResolvedByStep(l) ==
    \/ /\ op' = "light_send"
       /\ sent' = pending_data_[l]
       /\ QueueTookCommand
    \/ /\ op' = "light_duplicate"
       /\ IsDuplicate(pending_data_[l], last_sent_data_[l])
       /\ queue_' = [i \in DOMAIN queue_ |-> [queue_[i] EXCEPT !.timestamp = queue_'[i].timestamp]]

\* this step is a loop() call made when both waits of light l were over
WindowsElapsed(l) ==
    \E d \in LightDeltas :
        /\ ~DebounceWait((now + d) - last_state_change_[l])
        /\ ~IntervalWait((now + d) - last_command_sent_[l])
        /\ last_state_change_' = [k \in DOMAIN last_state_change_ |->
                                     Rebase(last_state_change_[k], d, DEBOUNCE_MS)]

\* a pending update does not stay pending for ever
C32_EventuallyCleared ==
    \A l \in Lights : has_pending_command_[l] ~> ~has_pending_command_[l]

\* the pending flag is cleared only by a loop() call made after both waits
C32_NotBeforeWindows ==
    [][\A l \in Lights : PendingCleared(l) => WindowsElapsed(l)]_vars

C32_AsStated ==
    /\ C32_EventuallyCleared
    /\ [][\A l \in Lights :
              PendingCleared(l) => ResolvedByStep(l) /\ WindowsElapsed(l)]_vars

(***************************************************************************)
(* C33: after any sequence of set_adv_interval_min and                     *)
(* set_adv_interval_max calls the configured maximum of the advertising    *)
(* interval is at least the configured minimum, and loop() in normal       *)
(* operation never starts the radio with a maximum below the minimum.      *)
(***************************************************************************)
\* this step is a loop() call in normal operation that starts a frame
NormalStart == op' = "loop" /\ ~pairing_mode_ /\ started' # <<>>

C33_AsStated ==
    /\ [](adv_interval_max_ >= adv_interval_min_)
    /\ [][NormalStart => AdvParams.adv_int_max >= AdvParams.adv_int_min]_vars

\* loop() has started a frame with the maximum below the minimum
C33_StartedBelowMin ==
    /\ op = "loop"
    /\ started # <<>>
    /\ radio_advertising
    /\ AdvParams.adv_int_max < AdvParams.adv_int_min

(***************************************************************************)
(* C34: the group id given to pair_device has no effect: the state a       *)
(* pair_device call leaves is the same for every group id, so two runs     *)
(* that differ in the group id only go through the same pairing states,    *)
(* hand the same discovery and pairing advertisements to the radio and     *)
(* leave the queue and the scheduler in the same state.                    *)
(***************************************************************************)
\* this step is a pair_device call
PairDeviceCall == pair_calls' = pair_calls + 1

\* this step is the pair_device call of one light id with every group id
SameForEveryGroup == \E id \in LightIds : \A group \in GroupIds : pair_device(id, group)

C34_GroupIdNoEffect ==
    [][PairDeviceCall => SameForEveryGroup]_vars

\* a session entered with a frame queued has reached its Pairing phase and
\* handed over a pairing advertisement
C34_Witness ==
    /\ op = "loop"
    /\ pair_calls = 1
    /\ pairing_mode_
    /\ pairing_phase_ = "PAIRING"
    /\ handed # <<>>
    /\ handed[8] = CmdPairing
    /\ QueueData(queue_) = <<Frame(1)>>

====
